---- MODULE Spec2Model ----
(***************************************************************************)
(* Verification model of awsinfra4databricks.                              *)
(*                                                                         *)
(* Part 1: the network topology planner of NetworkArchitecture.py          *)
(* (NetworkArchitectureParameters.__init__ followed by                     *)
(* SubnetConfigurationBuilder.__init__), executed statement block by       *)
(* statement block, and the subnet-size calculator __subnetBitLength.      *)
(*                                                                         *)
(* IPv4 addresses are dotted quads (4-tuples of octets), as the strings    *)
(* the code passes around; the ipaddress objects are integers. A CIDR      *)
(* string "a.b.c.d/p" is the record [addr |-> <<a,b,c,d>>, prefix |-> p].   *)
(* All addresses of the model lie below 128.0.0.0.                         *)
(***************************************************************************)
EXTENDS Integers, Sequences, FiniteSets, TLC

VARIABLES
    opts,            \* NetworkArchitectureDesignOptions of the invocation
    args,            \* arguments of NetworkArchitectureParameters(...)
    pc,              \* position in the planner
    err,             \* message of the exception raised, or "none"
    sizes,           \* vm_/endpoint_/firewall_/nat_gateway_/transit_gateway_subnet_size
    totalAddresses,  \* local totalAddresses
    vpc_network,     \* local vpc_network (ipaddress network object) or None
    startingIP,      \* local startingIP (the carving cursor)
    subnetsFor,      \* locals subnetsForClusters, subnetsForVpcEndpoints, ...
    vpcConfig,       \* self.__vpcConfig : VpcType -> VpcAndSubnetCIDR
    num_ips,         \* calculator runs: the host counts handed to __subnetBitLength
    bit_lengths,     \* calculator runs: the results returned, in call order
    customerManagedKeysOptions,    \* builder: self.__customerManagedKeysOptions
    cloudFormationTemplate,        \* builder: self.__cloudFormationTemplate
    requiredPrivileges,            \* builder: self.__requiredPrivileges
    requiredPrivilegesForRollback, \* builder: self.__requiredPrivilegesForRollback
    build_pc,        \* position in cloudFormationTemplateBodyParametersAndRequiredPermissions
    returned,        \* the policy documents the invocations have returned, in call order
    builders,        \* number of builder objects constructed so far
    stack_pc,        \* session: position in createCloudFormationStack
    stack_args,      \* session: the arguments of the call; one left at None is absent
    kwargs,          \* session: local kwargs
    calls,           \* session: the requests of the call so far, each with its outcome
    stack_results    \* session: what the calls have returned or raised, in call order

vars == <<opts, args, pc, err, sizes, totalAddresses, vpc_network, startingIP,
          subnetsFor, vpcConfig, num_ips, bit_lengths,
          customerManagedKeysOptions, cloudFormationTemplate, requiredPrivileges,
          requiredPrivilegesForRollback, build_pc, returned, builders,
          stack_pc, stack_args, kwargs, calls, stack_results>>

stackVars == <<stack_pc, stack_args, kwargs, calls, stack_results>>

buildVars == <<customerManagedKeysOptions, cloudFormationTemplate, requiredPrivileges,
               requiredPrivilegesForRollback, build_pc, returned, builders>>

plannerVars == <<opts, args, pc, err, sizes, totalAddresses, vpc_network,
                 startingIP, subnetsFor, vpcConfig>>

calcVars == <<num_ips, bit_lengths>>

(***************************************************************************)
(* Bounds of the model.                                                    *)
(***************************************************************************)
MaxAZs == 3          \* longest availabilityZoneIndexes sequence tried
MaxNodes == 14       \* largest maxRunningNodesPerSubnet tried (from 9 up)
MaxHostCount == 40   \* largest host count handed to the calculator alone

None == <<>>      \* Python None, for a value that is otherwise a non-empty tuple

(***************************************************************************)
(* Enumerations of NetworkArchitecture.py.                                 *)
(***************************************************************************)
InternetAccess == {"STANDARD", "HIGH_AVAILABILITY", "DISABLED"}
PrivateLinkEndpoints == {"ENABLED", "DISABLED"}
VPCArchitectureMode == {"SINGLE_VPC", "HUB_AND_SPOKE"}
DataExfiltrationProtection == {"ACTIVATED", "DEACTIVATED"}
SubnetType == {"CLUSTERS", "VPCENDPOINTS", "NETWORKFIREWALL", "NATGATEWAY", "TRANSITGATEWAY"}
VpcType == {"DATABRICKS_VPC", "HUB_VPC"}

NetworkArchitectureDesignOptions ==
    [internetAccess : InternetAccess,
     privateLinkEndpoints : PrivateLinkEndpoints,
     vpcArchitecture : VPCArchitectureMode,
     dataExfiltrationProtection : DataExfiltrationProtection]

(***************************************************************************)
(* Python and ipaddress primitives.                                        *)
(***************************************************************************)
RECURSIVE pow2(_)
\* math.pow(2, k) / 1 << k
pow2(k) == IF k <= 0 THEN 1 ELSE 2 * pow2(k - 1)

RECURSIVE bit_length(_)
\* int.bit_length(): the number of bits of |n|, 0 for 0
bit_length(n) ==
    IF n = 0 THEN 0
    ELSE IF n < 0 THEN bit_length(0 - n)
    ELSE 1 + bit_length(n \div 2)

\* ipaddress.ip_address(str): dotted quad to integer
AddressToInt(a) == ((a[1] * 256 + a[2]) * 256 + a[3]) * 256 + a[4]

\* str(ipaddress.ip_address(n)): integer to dotted quad
IntToAddress(n) ==
    <<n \div 16777216, (n \div 65536) % 256, (n \div 256) % 256, n % 256>>

\* ipaddress.ip_network(address + "/" + str(prefix)) with strict=True:
\* None as the address is a TypeError; a prefix outside 0..32 or an address
\* with host bits set is a ValueError. Otherwise the network object.
ip_network(address, prefix) ==
    IF address = None THEN [error |-> "TypeError"]
    ELSE IF prefix < 0 \/ prefix > 32 THEN [error |-> "ValueError"]
    ELSE IF (IF 32 - prefix >= 31
             THEN AddressToInt(address) # 0
             ELSE AddressToInt(address) % pow2(32 - prefix) # 0)
         THEN [error |-> "ValueError"]
    ELSE [error |-> "none", first |-> AddressToInt(address), prefixlen |-> prefix]

\* str(network): the CIDR string of a network object
NetworkStr(n) == [addr |-> IntToAddress(n.first), prefix |-> n.prefixlen]

\* mutant: the cursor is set to the first address of the subnet just carved
AddressAfter_first(n) == n.first

\* mutant: the cursor skips one block too many
AddressAfter_skip(n) == n.first + 2 * pow2(32 - n.prefixlen)

\* network[-1] + 1: the address following the last address of the network
AddressAfter(n) == n.first + pow2(32 - n.prefixlen)

(***************************************************************************)
(* NetworkArchitectureParameters.__init__ : the two checks on the zones.   *)
(***************************************************************************)
TooFewZones(availabilityZoneIndexes) == Len(availabilityZoneIndexes) < 2

\* mutant: the length is compared with the length of a list copy, not of the set
DuplicateZones_list(availabilityZoneIndexes) ==
    Len(availabilityZoneIndexes) # Len([i \in DOMAIN availabilityZoneIndexes |-> availabilityZoneIndexes[i]])

DuplicateZones(availabilityZoneIndexes) ==
    Len(availabilityZoneIndexes) #
        Cardinality({availabilityZoneIndexes[i] : i \in DOMAIN availabilityZoneIndexes})

(***************************************************************************)
(* SubnetConfigurationBuilder: sizes.                                      *)
(***************************************************************************)
\* int(math.log2(m)) for the exact powers of two it is applied to
log2(m) == bit_length(m) - 1

\* mutant: the reserved addresses are subtracted instead of added
subnetBitLength_minus(n) == log2(pow2(bit_length(n - 5)))

\* SubnetConfigurationBuilder.__subnetBitLength
subnetBitLength(n) == log2(pow2(bit_length(n + 5)))

TooFewNodes(numberOfNodesPerSubnet) == numberOfNodesPerSubnet < 10

\* mutant: the cluster subnets are sized for the nodes, not for twice the nodes
SubnetSizes_once(a) ==
    [vm |-> subnetBitLength(a.maxRunningNodesPerSubnet),
     endpoint |-> subnetBitLength(IF a.maxVpcEndpointsPerSubnet < 10 THEN 10
                                  ELSE a.maxVpcEndpointsPerSubnet),
     firewall |-> subnetBitLength(10),
     nat_gateway |-> subnetBitLength(10),
     transit_gateway |-> subnetBitLength(10)]

\* vm_ips .. transit_gateway_subnet_size
SubnetSizes(a) ==
    [vm |-> subnetBitLength(2 * a.maxRunningNodesPerSubnet),
     endpoint |-> subnetBitLength(IF a.maxVpcEndpointsPerSubnet < 10 THEN 10
                                  ELSE a.maxVpcEndpointsPerSubnet),
     firewall |-> subnetBitLength(10),
     nat_gateway |-> subnetBitLength(10),
     transit_gateway |-> subnetBitLength(10)]

\* mutant: the workload VPC's starting address is tested instead of the hub's
HubAddressMissing_workload(a) == a.vpcCidrStartingAddress = None

\* hubVpcStartingAddress is None
HubAddressMissing(a) == a.hubVpcStartingAddress = None

IsSingleVpc(o) == o.vpcArchitecture = "SINGLE_VPC"

\* mutant: the firewall flag is compared with the wrong member
ExfiltrationWithoutInternet_deactivated(o) ==
    /\ o.internetAccess \notin {"STANDARD", "HIGH_AVAILABILITY"}
    /\ o.dataExfiltrationProtection = "DEACTIVATED"

\* the branch "else: # No Internet" with the firewall requested
ExfiltrationWithoutInternet(o) ==
    /\ o.internetAccess \notin {"STANDARD", "HIGH_AVAILABILITY"}
    /\ o.dataExfiltrationProtection = "ACTIVATED"

\* mutant: the internet check sits in the branch of the enabled endpoints
NoRouteToControlPlane_enabled(o) ==
    /\ o.privateLinkEndpoints = "ENABLED"
    /\ o.internetAccess = "DISABLED"

\* hub VPC: no VPC endpoints and no internet access
NoRouteToControlPlane(o) ==
    /\ o.privateLinkEndpoints # "ENABLED"
    /\ o.internetAccess = "DISABLED"

\* the address space of the NAT gateway and network firewall subnets
InternetAddresses(o, n, s) ==
    IF o.internetAccess = "STANDARD"
    THEN pow2(s.nat_gateway)
         + (IF o.dataExfiltrationProtection = "ACTIVATED" THEN pow2(s.firewall) ELSE 0)
    ELSE IF o.internetAccess = "HIGH_AVAILABILITY"
    THEN n * pow2(s.nat_gateway)
         + (IF o.dataExfiltrationProtection = "ACTIVATED" THEN n * pow2(s.firewall) ELSE 0)
    ELSE 0

\* totalAddresses of the single VPC
SingleVpcTotalAddresses(o, n, s) ==
    n * pow2(s.vm)
    + (IF o.privateLinkEndpoints = "ENABLED" THEN n * pow2(s.endpoint) ELSE 0)
    + InternetAddresses(o, n, s)

\* totalAddresses of the Databricks (workload) VPC in hub and spoke
WorkloadVpcTotalAddresses(n, s) == n * (pow2(s.vm) + pow2(s.transit_gateway))

\* totalAddresses of the hub VPC
HubVpcTotalAddresses(o, n, s) ==
    n * pow2(s.transit_gateway)
    + (IF o.privateLinkEndpoints = "ENABLED" THEN n * pow2(s.endpoint) ELSE 0)
    + InternetAddresses(o, n, s)

\* vpc_size = int(totalAddresses).bit_length(); ip_network(start + "/" + str(32-vpc_size))
VpcNetwork(address, total) == ip_network(address, 32 - bit_length(total))

(***************************************************************************)
(* SubnetConfigurationBuilder: carving.                                    *)
(***************************************************************************)
RECURSIVE CarveLoop(_, _, _)
\* for _ in range(count): subnet = ip_network(str(startingIP) + "/" + prefix);
\*     list.append(str(subnet)); startingIP = subnet[-1] + 1
\* The list and the cursor as the loop leaves them, and the exception if one is raised.
CarveLoop(start, prefix, count) ==
    IF count = 0 THEN [error |-> "none", subnets |-> <<>>, next |-> start]
    ELSE LET subnet == ip_network(IntToAddress(start), prefix) IN
         IF subnet.error # "none"
         THEN [error |-> subnet.error, subnets |-> <<>>, next |-> start]
         ELSE LET rest == CarveLoop(AddressAfter(subnet), prefix, count - 1) IN
              [error |-> rest.error,
               subnets |-> <<NetworkStr(subnet)>> \o rest.subnets,
               next |-> rest.next]

\* mutant: the break after the first iteration is missing
InternetLoopCount_noBreak(o, n) == n

\* iterations of a NAT gateway / network firewall loop: break after the first if STANDARD
InternetLoopCount(o, n) == IF o.internetAccess = "STANDARD" THEN 1 ELSE n

\* mutant: every subnet list still bound is handed over, whatever the VPC
VpcAndSubnetCIDR_all(vpcCIDR, vpcType, subnets, roles) ==
    [vpcCIDR |-> vpcCIDR, vpcType |-> vpcType, config |-> subnets]

\* VpcAndSubnetCIDR.__init__ : the roles given as None are left out of the config
VpcAndSubnetCIDR(vpcCIDR, vpcType, subnets, roles) ==
    [vpcCIDR |-> vpcCIDR,
     vpcType |-> vpcType,
     config |-> [t \in (roles \cap DOMAIN subnets) |-> subnets[t]]]

n_availability_zones == Len(args.availabilityZoneIndexes)

(***************************************************************************)
(* Inputs tried.                                                           *)
(***************************************************************************)
\* zone index sequences up to MaxAZs long, starting at 0, each next index
\* equal to the previous one (a duplicate) or one more
ZoneSequences ==
    {z \in UNION {[1..k -> 0..(MaxAZs - 1)] : k \in 0..MaxAZs} :
        /\ Len(z) > 0 => z[1] = 0
        /\ \A i \in 1..(Len(z) - 1) : z[i + 1] - z[i] \in {0, 1}}

\* 10.0.0.0 and 10.10.0.0 (examples), 10.0.0.16 (aligned to 16 addresses only)
StartingAddresses == {<<10, 0, 0, 0>>, <<10, 10, 0, 0>>, <<10, 0, 0, 16>>}

\* absent, 10.11.0.0 (example), 10.11.0.32 (aligned to 32 addresses only)
HubStartingAddresses == {None, <<10, 11, 0, 0>>, <<10, 11, 0, 32>>}

\* below the floor of 10, the floor, 11 (+5 is a power of two), 60 (a larger block
\* than the cluster subnets tried)
EndpointCounts == {5, 10, 11, 60}

\* maxRunningNodesPerSubnet of the examples
ExampleNodes == 1000

NetworkArchitectureParameters ==
    [vpcCidrStartingAddress : StartingAddresses,
     maxRunningNodesPerSubnet : (9..MaxNodes) \cup {ExampleNodes},
     availabilityZoneIndexes : ZoneSequences,
     maxVpcEndpointsPerSubnet : EndpointCounts,
     hubVpcStartingAddress : HubStartingAddresses]

NoSizes == [vm |-> 0, endpoint |-> 0, firewall |-> 0, nat_gateway |-> 0, transit_gateway |-> 0]

PlannerIdle ==
    /\ pc = "idle"
    /\ err = "none"
    /\ opts = [internetAccess |-> "STANDARD", privateLinkEndpoints |-> "DISABLED",
               vpcArchitecture |-> "SINGLE_VPC", dataExfiltrationProtection |-> "DEACTIVATED"]
    /\ args = [vpcCidrStartingAddress |-> <<10, 0, 0, 0>>, maxRunningNodesPerSubnet |-> 512,
               availabilityZoneIndexes |-> <<0, 1>>, maxVpcEndpointsPerSubnet |-> 10,
               hubVpcStartingAddress |-> None]
    /\ sizes = NoSizes
    /\ totalAddresses = 0
    /\ vpc_network = None
    /\ startingIP = 0
    /\ subnetsFor = <<>>
    /\ vpcConfig = <<>>

CalcIdle == num_ips = <<>> /\ bit_lengths = <<>>

\* createCloudFormationStack has not been called
StackIdle ==
    /\ stack_pc = "idle"
    /\ stack_args = <<>>
    /\ kwargs = <<>>
    /\ calls = <<>>
    /\ stack_results = <<>>

\* no builder has been constructed
BuildIdle ==
    /\ build_pc = "idle"
    /\ customerManagedKeysOptions = [usage |-> "NONE"]
    /\ cloudFormationTemplate = None
    /\ requiredPrivileges = None
    /\ requiredPrivilegesForRollback = None
    /\ returned = <<>>
    /\ builders = 0

Init ==
    /\ opts \in NetworkArchitectureDesignOptions
    /\ args \in NetworkArchitectureParameters
    /\ pc = "new"
    /\ err = "none"
    /\ sizes = NoSizes
    /\ totalAddresses = 0
    /\ vpc_network = None
    /\ startingIP = 0
    /\ subnetsFor = <<>>
    /\ vpcConfig = <<>>
    /\ CalcIdle
    /\ BuildIdle
    /\ StackIdle

(***************************************************************************)
(* The planner, block by block.                                            *)
(***************************************************************************)
Raise(message) == pc' = "raised" /\ err' = message

Goto(label) == pc' = label /\ err' = err

\* NetworkArchitectureParameters.__init__
NewParameters ==
    /\ pc = "new"
    /\ IF TooFewZones(args.availabilityZoneIndexes)
       THEN Raise("There should be at least 2 availability zones specified")
       ELSE IF DuplicateZones(args.availabilityZoneIndexes)
       THEN Raise("There should be no duplicates in the availability zones specified")
       ELSE Goto("parameters")
    /\ UNCHANGED <<opts, args, sizes, totalAddresses, vpc_network, startingIP,
                   subnetsFor, vpcConfig, calcVars, buildVars, stackVars>>

\* SubnetConfigurationBuilder.__init__ : the node check and the subnet sizes
BuilderSizes ==
    /\ pc = "parameters"
    /\ IF TooFewNodes(args.maxRunningNodesPerSubnet)
       THEN Raise("Very small number of nodes per subnet specified") /\ sizes' = sizes
       ELSE Goto(IF IsSingleVpc(opts) THEN "single" ELSE "workload")
            /\ sizes' = SubnetSizes(args)
    /\ UNCHANGED <<opts, args, totalAddresses, vpc_network, startingIP,
                   subnetsFor, vpcConfig, calcVars, buildVars, stackVars>>

\* a block computing totalAddresses, raising message when bad holds
Total(from, to, total, bad, message) ==
    /\ pc = from
    /\ totalAddresses' = total
    /\ IF bad THEN Raise(message) ELSE Goto(to)
    /\ UNCHANGED <<opts, args, sizes, vpc_network, startingIP, subnetsFor, vpcConfig, calcVars, buildVars, stackVars>>

\* a block "Define the VPC size and network"
DefineVpc(from, to, address) ==
    /\ pc = from
    /\ LET network == VpcNetwork(address, totalAddresses) IN
       IF network.error # "none"
       THEN Raise(network.error) /\ UNCHANGED <<vpc_network, startingIP>>
       ELSE Goto(to) /\ vpc_network' = <<network>> /\ startingIP' = network.first
    /\ UNCHANGED <<opts, args, sizes, totalAddresses, subnetsFor, vpcConfig, calcVars, buildVars, stackVars>>

\* a carving loop of one role; a role not required gets None
Carve(from, to, role, required, prefix, count) ==
    /\ pc = from
    /\ IF ~required
       THEN /\ Goto(to)
            /\ subnetsFor' = [t \in DOMAIN subnetsFor \ {role} |-> subnetsFor[t]]
            /\ startingIP' = startingIP
       ELSE LET loop == CarveLoop(startingIP, prefix, count) IN
            /\ IF loop.error # "none" THEN Raise(loop.error) ELSE Goto(to)
            /\ subnetsFor' = [t \in DOMAIN subnetsFor \cup {role} |->
                                 IF t = role THEN loop.subnets ELSE subnetsFor[t]]
            /\ startingIP' = loop.next
    /\ UNCHANGED <<opts, args, sizes, totalAddresses, vpc_network, vpcConfig, calcVars, buildVars, stackVars>>

\* a block assigning a VpcAndSubnetCIDR to self.__vpcConfig
Assemble(from, to, config) ==
    /\ pc = from
    /\ Goto(to)
    /\ vpcConfig' = config
    /\ UNCHANGED <<opts, args, sizes, totalAddresses, vpc_network, startingIP,
                   subnetsFor, calcVars, buildVars, stackVars>>

\* mutant: the NAT gateway subnets are carved in high availability mode only
HasInternet_highAvailability == opts.internetAccess = "HIGH_AVAILABILITY"

HasInternet == opts.internetAccess # "DISABLED"

HasFirewall == HasInternet /\ opts.dataExfiltrationProtection = "ACTIVATED"

HasEndpoints == opts.privateLinkEndpoints = "ENABLED"

(* single VPC *)
SingleTotal ==
    Total("single", "single_vpc",
          SingleVpcTotalAddresses(opts, n_availability_zones, sizes),
          ExfiltrationWithoutInternet(opts),
          "Data Exfiltration Protection requested without Internet Access")

SingleDefineVpc == DefineVpc("single_vpc", "single_vm", args.vpcCidrStartingAddress)

SingleCarveClusters ==
    Carve("single_vm", "single_ep", "CLUSTERS", TRUE, 32 - sizes.vm, n_availability_zones)

SingleCarveVpcEndpoints ==
    Carve("single_ep", "single_fw", "VPCENDPOINTS", HasEndpoints,
          32 - sizes.endpoint, n_availability_zones)

SingleCarveNetworkFirewall ==
    Carve("single_fw", "single_nat", "NETWORKFIREWALL", HasFirewall,
          32 - sizes.firewall, InternetLoopCount(opts, n_availability_zones))

SingleCarveNatGateway ==
    Carve("single_nat", "single_assemble", "NATGATEWAY", HasInternet,
          32 - sizes.nat_gateway, InternetLoopCount(opts, n_availability_zones))

SingleAssemble ==
    Assemble("single_assemble", "done",
             [v \in {"DATABRICKS_VPC"} |->
                 VpcAndSubnetCIDR(NetworkStr(vpc_network[1]), "DATABRICKS_VPC", subnetsFor,
                     {"CLUSTERS", "VPCENDPOINTS", "NETWORKFIREWALL", "NATGATEWAY"})])

(* hub and spoke: the Databricks (workload) VPC *)
WorkloadTotal ==
    Total("workload", "workload_vpc",
          WorkloadVpcTotalAddresses(n_availability_zones, sizes), FALSE, "none")

WorkloadDefineVpc == DefineVpc("workload_vpc", "workload_vm", args.vpcCidrStartingAddress)

WorkloadCarveClusters ==
    Carve("workload_vm", "workload_tgw", "CLUSTERS", TRUE, 32 - sizes.vm, n_availability_zones)

WorkloadCarveTransitGateway ==
    Carve("workload_tgw", "workload_assemble", "TRANSITGATEWAY", TRUE,
          32 - sizes.transit_gateway, n_availability_zones)

WorkloadAssemble ==
    Assemble("workload_assemble", "hub",
             [v \in {"DATABRICKS_VPC"} |->
                 VpcAndSubnetCIDR(NetworkStr(vpc_network[1]), "DATABRICKS_VPC", subnetsFor,
                     {"CLUSTERS", "TRANSITGATEWAY"})])

(* hub and spoke: the hub VPC *)
HubStartingAddress ==
    /\ pc = "hub"
    /\ IF HubAddressMissing(args)
       THEN Raise("Hub and Spoke architecture requested without specifying the Hub VPC starting address")
       ELSE Goto("hub_total")
    /\ UNCHANGED <<opts, args, sizes, totalAddresses, vpc_network, startingIP,
                   subnetsFor, vpcConfig, calcVars, buildVars, stackVars>>

HubTotal ==
    Total("hub_total", "hub_vpc",
          HubVpcTotalAddresses(opts, n_availability_zones, sizes),
          NoRouteToControlPlane(opts) \/ ExfiltrationWithoutInternet(opts),
          IF NoRouteToControlPlane(opts)
          THEN "Hub and spoke architecture defined with no internet access and no VPC endpoints. No route to the control plane can be defined!"
          ELSE "Data Exfiltration Protection requested without Internet Access")

HubDefineVpc == DefineVpc("hub_vpc", "hub_ep", args.hubVpcStartingAddress)

HubCarveVpcEndpoints ==
    Carve("hub_ep", "hub_tgw", "VPCENDPOINTS", HasEndpoints,
          32 - sizes.endpoint, n_availability_zones)

HubCarveTransitGateway ==
    Carve("hub_tgw", "hub_fw", "TRANSITGATEWAY", TRUE,
          32 - sizes.transit_gateway, n_availability_zones)

HubCarveNetworkFirewall ==
    Carve("hub_fw", "hub_nat", "NETWORKFIREWALL", HasFirewall,
          32 - sizes.firewall, InternetLoopCount(opts, n_availability_zones))

HubCarveNatGateway ==
    Carve("hub_nat", "hub_assemble", "NATGATEWAY", HasInternet,
          32 - sizes.nat_gateway, InternetLoopCount(opts, n_availability_zones))

HubAssemble ==
    Assemble("hub_assemble", "done",
             [v \in {"DATABRICKS_VPC", "HUB_VPC"} |->
                 IF v = "DATABRICKS_VPC" THEN vpcConfig["DATABRICKS_VPC"]
                 ELSE VpcAndSubnetCIDR(NetworkStr(vpc_network[1]), "HUB_VPC", subnetsFor,
                          {"VPCENDPOINTS", "NETWORKFIREWALL", "NATGATEWAY", "TRANSITGATEWAY"})])

Next ==
    \/ NewParameters
    \/ BuilderSizes
    \/ SingleTotal
    \/ SingleDefineVpc
    \/ SingleCarveClusters
    \/ SingleCarveVpcEndpoints
    \/ SingleCarveNetworkFirewall
    \/ SingleCarveNatGateway
    \/ SingleAssemble
    \/ WorkloadTotal
    \/ WorkloadDefineVpc
    \/ WorkloadCarveClusters
    \/ WorkloadCarveTransitGateway
    \/ WorkloadAssemble
    \/ HubStartingAddress
    \/ HubTotal
    \/ HubDefineVpc
    \/ HubCarveVpcEndpoints
    \/ HubCarveTransitGateway
    \/ HubCarveNetworkFirewall
    \/ HubCarveNatGateway
    \/ HubAssemble

Spec == Init /\ [][Next]_vars

\* SubnetConfigurationBuilder.vpcConfig() of the constructed builder; no builder, and
\* so no plan, when the constructor raised
Plan == IF pc = "done" THEN vpcConfig ELSE <<>>

(***************************************************************************)
(* The calculator alone: __subnetBitLength applied to two host counts.     *)
(***************************************************************************)
InitCalc ==
    /\ PlannerIdle
    /\ BuildIdle
    /\ StackIdle
    /\ num_ips \in (1..MaxHostCount) \X (1..MaxHostCount)
    /\ bit_lengths = <<>>

CallSubnetBitLength ==
    /\ Len(bit_lengths) < Len(num_ips)
    /\ bit_lengths' = Append(bit_lengths, subnetBitLength(num_ips[Len(bit_lengths) + 1]))
    /\ UNCHANGED <<num_ips, plannerVars, buildVars, stackVars>>

NextCalc == CallSubnetBitLength

SpecCalc == InitCalc /\ [][NextCalc]_vars

(***************************************************************************)
(* Part 2: the graph builder of CloudInfraBuilderForWorkspace.py.          *)
(*                                                                         *)
(* cloudFormationTemplateBodyParametersAndRequiredPermissions is executed  *)
(* private method by private method; the planner of part 1 runs inside     *)
(* __defineNetworking. The template is the record of its sections, each    *)
(* the sequence of its entries in insertion order. A resource keeps its    *)
(* logical id, its Type, its DependsOn list and, per property, the         *)
(* intrinsic-function values of the property in document order             *)
(* (Ref, Fn::GetAtt, Fn::Sub variables, Fn::FindInMap, Fn::If) and the      *)
(* literal DestinationCidrBlock of a route; references to the pseudo        *)
(* parameters AWS::* , the other literals, the Tags and the YAML comments   *)
(* are left out. The KeyPolicy property keeps its list of statements.       *)
(***************************************************************************)
Usage == {"NONE", "MANAGED_SERVICES", "STORAGE", "BOTH"}

\* a value of a property: fn is the intrinsic function ("" for a literal), to the
\* name it refers to (or the literal), attr the attribute or map key, select the
\* index of the Fn::Select applied to it
Value(fn, to, attr, select) == [fn |-> fn, to |-> to, attr |-> attr, select |-> select]

Ref(name) == Value("Ref", name, "", 0)

GetAtt(name, attr) == Value("Fn::GetAtt", name, attr, 0)

\* a variable ${name} or ${name.attr} of an Fn::Sub string
Sub(name, attr) == Value("Fn::Sub", name, attr, 0)

FindInMap(map, key) == Value("Fn::FindInMap", map, key, 0)

\* the condition of {"Fn::If": [condition, ...]}
If(condition) == Value("Fn::If", condition, "", 0)

Literal(string) == Value("", string, "", 0)

Sid(string) == Value("Sid", string, "", 0)

NoProperties == [property \in {} |-> <<>>]

\* prefix + str(iAZ + 1) + suffix, for the 1-based position number = iAZ + 1
Name(prefix, number, suffix) == prefix \o ToString(number) \o suffix

\* an entry of the Resources section
Resource(id, type, dependsOn, properties) ==
    [id |-> id, Type |-> type, DependsOn |-> dependsOn, Properties |-> properties]

\* an entry of the Parameters section; Default is kept for the CIDR blocks only
Parameter(name, default) == [name |-> name, Default |-> default]

\* an entry of the Conditions or of the Outputs section
Entry(name, values) == [name |-> name, Value |-> values]

\* what a stretch of a private method adds: entries per section and the arguments
\* of the add calls on the two privilege sets, all in program order
Nothing ==
    [Parameters |-> <<>>, Conditions |-> <<>>, Resources |-> <<>>, Outputs |-> <<>>,
     requiredPrivileges |-> <<>>, requiredPrivilegesForRollback |-> <<>>]

\* the inserts into one section: self.__cloudFormationTemplate[section].insert(...)
Section(section, entries) == [Nothing EXCEPT ![section] = entries]

Privileges(creation, rollback) ==
    [Nothing EXCEPT !.requiredPrivileges = creation,
                    !.requiredPrivilegesForRollback = rollback]

\* one stretch after the other
Then(first, second) ==
    [Parameters |-> first.Parameters \o second.Parameters,
     Conditions |-> first.Conditions \o second.Conditions,
     Resources |-> first.Resources \o second.Resources,
     Outputs |-> first.Outputs \o second.Outputs,
     requiredPrivileges |-> first.requiredPrivileges \o second.requiredPrivileges,
     requiredPrivilegesForRollback |->
         first.requiredPrivilegesForRollback \o second.requiredPrivilegesForRollback]

RECURSIVE Sequence(_)
\* the stretches of a sequence of stretches, one after the other: those of its
\* first half, then those of its second half
Sequence(stretches) ==
    IF stretches = <<>> THEN Nothing
    ELSE IF Len(stretches) = 1 THEN stretches[1]
    ELSE LET half == Len(stretches) \div 2 IN
         Then(Sequence(SubSeq(stretches, 1, half)),
              Sequence(SubSeq(stretches, half + 1, Len(stretches))))

\* for iAZ in range(count): body; bodies[number] is the body for number = iAZ + 1
ForEach(bodies) == Sequence(bodies)

\* a block under "if condition:"
When(condition, stretch) == IF condition THEN stretch ELSE Nothing

(***************************************************************************)
(* The flags __defineNetworking computes from the design options.          *)
(***************************************************************************)
isHubNSpoke(o) == o.vpcArchitecture = "HUB_AND_SPOKE"

isInternetEnabled(o) == o.internetAccess # "DISABLED"

isPrivateLinkEnabled(o) == o.privateLinkEndpoints = "ENABLED"

isNetworkFirewall(o) == o.dataExfiltrationProtection = "ACTIVATED"

isUsingSingleAZ(o) == o.internetAccess = "STANDARD"

\* "HubVpc" if isHubNSpoke else "DBSVpc"
vpcResourceName(o) == IF isHubNSpoke(o) THEN "HubVpc" ELSE "DBSVpc"

\* the VPC whose subnet lists the endpoint, firewall and NAT loops read
vpcTypeOfEpSubnets(o) == IF isHubNSpoke(o) THEN "HUB_VPC" ELSE "DATABRICKS_VPC"

\* iterations of a loop with "if isUsingSingleAZ: break" at the end of its body
SingleAZLoopCount(o, n) == IF isUsingSingleAZ(o) THEN 1 ELSE n

\* networkConfig[vpcType].subnetCIDRs()[subnetType][iAZ]
subnetCIDR(networkConfig, vpcType, subnetType, number) ==
    <<networkConfig[vpcType].config[subnetType][number]>>

(***************************************************************************)
(* __defineStorageResource                                                 *)
(***************************************************************************)
DBFSRootBucket ==
    Sequence(<<
        Section("Parameters", <<Parameter("DBFSRootBucketName", <<>>)>>),
        Section("Conditions", <<Entry("IsBucketNameSpecified", <<Ref("DBFSRootBucketName")>>)>>),
        Section("Resources", <<Resource("DBFSRootBucket", "AWS::S3::Bucket", <<>>,
            [BucketName |-> <<If("IsBucketNameSpecified"), Ref("DBFSRootBucketName")>>])>>),
        Privileges(<<"s3:CreateBucket", "s3:PutBucketTagging",
                     "s3:PutBucketPublicAccessBlock", "s3:PutEncryptionConfiguration">>,
                   <<"s3:DeleteBucket">>),
        Section("Outputs", <<Entry("DBFSBucketName", <<Ref("DBFSRootBucket")>>)>>)>>)

DBFSRootBucketPolicy ==
    Sequence(<<
        Section("Resources", <<Resource("DBFSRootBucketPolicy", "AWS::S3::BucketPolicy", <<>>,
            [Bucket |-> <<Ref("DBFSRootBucket")>>,
             PolicyDocument |-> <<Sub("DBFSRootBucket", "Arn"), Sub("DBFSRootBucket", "Arn"),
                                  Ref("DatabricksAccountId"),
                                  Sub("DBFSRootBucket", "Arn")>>])>>),
        Privileges(<<"s3:PutBucketPolicy", "s3:GetBucketPolicy">>,
                   <<"s3:DeleteBucketPolicy">>)>>)

StorageCredentialIAMRole(usage) ==
    Sequence(<<
        Section("Parameters", <<Parameter("StorageCredentialIAMRoleArn", <<>>)>>),
        Section("Conditions", <<Entry("IsStorageCredentialArnSpecified",
                           <<Ref("StorageCredentialIAMRoleArn")>>)>>),
        Section("Resources", <<Resource("StorageCredentialIAMRole", "AWS::IAM::Role", <<>>,
            [AssumeRolePolicyDocument |->
                 <<If("IsStorageCredentialArnSpecified"), Ref("StorageCredentialIAMRoleArn"),
                   Ref("DatabricksAccountId")>>,
             Policies |->
                 <<Sub("DBFSRootBucket", "Arn"), Sub("DBFSRootBucket", "Arn"),
                   If("IsStorageCredentialArnSpecified"), Ref("StorageCredentialIAMRoleArn"),
                   Sub("DBFSRootBucket", "Arn")>>
                 \o (IF usage \in {"BOTH", "STORAGE"}
                     THEN <<GetAtt("EncryptionKey", "Arn")>> ELSE <<>>)])>>),
        Privileges(<<"iam:CreateRole", "iam:GetRole", "iam:TagRole", "iam:PutRolePolicy",
                     "iam:GetRolePolicy">>,
                   <<"iam:DeleteRole", "iam:DeleteRolePolicy">>),
        Section("Outputs", <<Entry("StorageCredentialIAMRole",
                        <<GetAtt("StorageCredentialIAMRole", "Arn")>>)>>)>>)

StorageResource(usage) ==
    Sequence(<<DBFSRootBucket, DBFSRootBucketPolicy, StorageCredentialIAMRole(usage)>>)

(***************************************************************************)
(* __defineNetworking: VPCs, internet gateway, subnets, NAT gateways,      *)
(* network firewall, transit gateway.                                      *)
(***************************************************************************)
\* a subnet: its CIDR parameter, defaulting to the planned block, and its resource
Subnet(prefix, vpc, networkConfig, vpcType, subnetType, number) ==
    Then(Section("Parameters", <<Parameter(Name(prefix, number, "CidrBlock"),
                                subnetCIDR(networkConfig, vpcType, subnetType, number))>>),
         Section("Resources", <<Resource(Name(prefix, number, ""), "AWS::EC2::Subnet", <<>>,
             [VpcId |-> <<Ref(vpc)>>,
              CidrBlock |-> <<Ref(Name(prefix, number, "CidrBlock"))>>])>>))

DatabricksVpc(networkConfig) ==
    Sequence(<<
        Section("Parameters", <<Parameter("DBSVPCCidrBlock", <<networkConfig["DATABRICKS_VPC"].vpcCIDR>>)>>),
        Section("Resources", <<Resource("DBSVpc", "AWS::EC2::VPC", <<>>,
                             [CidrBlock |-> <<Ref("DBSVPCCidrBlock")>>])>>),
        Privileges(<<"ec2:CreateVpc", "ec2:DescribeVpcs", "ec2:ModifyVpcAttribute",
                     "ec2:CreateTags">>,
                   <<"ec2:DeleteVpc", "ec2:DeleteTags">>),
        Section("Outputs", <<Entry("DatabricksVPCId", <<Ref("DBSVpc")>>)>>)>>)

HubVpc(o, networkConfig) ==
    When(isHubNSpoke(o),
         Then(Section("Parameters", <<Parameter("HubVPCCidrBlock", <<networkConfig["HUB_VPC"].vpcCIDR>>)>>),
              Section("Resources", <<Resource("HubVpc", "AWS::EC2::VPC", <<>>,
                                   [CidrBlock |-> <<Ref("HubVPCCidrBlock")>>])>>)))

InternetGateway(o) ==
    When(isInternetEnabled(o), Sequence(<<
        Section("Resources", <<Resource("Igw", "AWS::EC2::InternetGateway", <<>>, NoProperties)>>),
        Privileges(<<"ec2:CreateInternetGateway", "ec2:DescribeInternetGateways">>,
                   <<"ec2:DeleteInternetGateway">>),
        Section("Resources", <<Resource("VpcIgwAttachment", "AWS::EC2::VPCGatewayAttachment", <<>>,
            [InternetGatewayId |-> <<Ref("Igw")>>,
             VpcId |-> <<Ref(vpcResourceName(o))>>])>>),
        Privileges(<<"ec2:AttachInternetGateway">>, <<"ec2:DetachInternetGateway">>)>>))

ClusterSubnets(n, networkConfig) ==
    Sequence(<<
        ForEach([number \in 1..n |->
            Subnet("DBSClusterSubnet", "DBSVpc", networkConfig,
                   "DATABRICKS_VPC", "CLUSTERS", number)]),
        Privileges(<<"ec2:CreateSubnet", "ec2:DescribeSubnets",
                     "ec2:DescribeAvailabilityZones">>,
                   <<"ec2:DeleteSubnet">>),
        Section("Outputs", <<Entry("DatabricksSubnetIds",
                        [number \in 1..n |-> Sub(Name("DBSClusterSubnet", number, ""), "")])>>)>>)

TransitGatewaySubnets(o, n, networkConfig) ==
    When(isHubNSpoke(o), Then(
        ForEach([number \in 1..n |->
            Subnet("DBSVPCTransitGatewaySubnet", "DBSVpc", networkConfig,
                   "DATABRICKS_VPC", "TRANSITGATEWAY", number)]),
        ForEach([number \in 1..n |->
            Subnet("HubVPCTransitGatewaySubnet", "HubVpc", networkConfig,
                   "HUB_VPC", "TRANSITGATEWAY", number)])))

EndpointSubnets(o, n, networkConfig) ==
    When(isPrivateLinkEnabled(o),
        ForEach([number \in 1..n |->
            Subnet("VPCEndpointSubnet", vpcResourceName(o), networkConfig,
                   vpcTypeOfEpSubnets(o), "VPCENDPOINTS", number)]))

FirewallSubnets(o, n, networkConfig) ==
    When(isNetworkFirewall(o),
        ForEach([number \in 1..(SingleAZLoopCount(o, n)) |->
            Subnet("FirewallSubnet", vpcResourceName(o), networkConfig,
                   vpcTypeOfEpSubnets(o), "NETWORKFIREWALL", number)]))

NatSubnets(o, n, networkConfig) ==
    When(isInternetEnabled(o),
        ForEach([number \in 1..(SingleAZLoopCount(o, n)) |->
            Subnet("NatSubnet", vpcResourceName(o), networkConfig,
                   vpcTypeOfEpSubnets(o), "NATGATEWAY", number)]))

NatGateways(o, n) ==
    When(isInternetEnabled(o), Then(
        ForEach([number \in 1..(SingleAZLoopCount(o, n)) |-> Section("Resources", <<
            Resource(Name("ElasticIPForNat", number, ""), "AWS::EC2::EIP", <<>>, NoProperties),
            Resource(Name("NatGateway", number, ""), "AWS::EC2::NatGateway", <<>>,
                [AllocationId |-> <<GetAtt(Name("ElasticIPForNat", number, ""), "AllocationId")>>,
                 SubnetId |-> <<Ref(Name("NatSubnet", number, ""))>>])>>)]),
        Privileges(<<"ec2:AllocateAddress", "ec2:AssociateAddress", "ec2:DescribeAddresses",
                     "ec2:CreateNatGateway", "ec2:DescribeNatGateways">>,
                   <<"ec2:DeleteVpc", "ec2:ReleaseAddress", "ec2:DisassociateAddress",
                     "ec2:DeleteNatGateway">>)))

NetworkFirewall(o, n) ==
    When(isNetworkFirewall(o), Sequence(<<
        Section("Parameters", <<Parameter("WhitelistedDomainsForNetworkFirewall", <<>>)>>),
        Section("Resources", <<Resource("StatefulNetworkFirewallRulesForWhiteListedDomains",
            "AWS::NetworkFirewall::RuleGroup", <<>>,
            [RuleGroup |-> <<Ref("WhitelistedDomainsForNetworkFirewall")>>])>>),
        Privileges(<<"network-firewall:CreateRuleGroup", "network-firewall:DescribeRuleGroup",
                     "network-firewall:ListRuleGroups", "network-firewall:TagResource">>,
                   <<"network-firewall:DeleteRuleGroup">>),
        Section("Resources", <<
            Resource("StatefulNetworkFirewallRulesForLegacyMetastore",
                     "AWS::NetworkFirewall::RuleGroup", <<>>, NoProperties),
            Resource("StatefulNetworkFirewallRulesForBlockedProtocols",
                     "AWS::NetworkFirewall::RuleGroup", <<>>, NoProperties),
            Resource("NetworkFirewallPolicy", "AWS::NetworkFirewall::FirewallPolicy", <<>>,
                [FirewallPolicy |->
                    <<Ref("StatefulNetworkFirewallRulesForWhiteListedDomains"),
                      Ref("StatefulNetworkFirewallRulesForLegacyMetastore"),
                      Ref("StatefulNetworkFirewallRulesForBlockedProtocols")>>])>>),
        Privileges(<<"network-firewall:CreateFirewallPolicy",
                     "network-firewall:DescribeFirewallPolicy">>,
                   <<"network-firewall:DeleteFirewallPolicy">>),
        Section("Resources", <<Resource("NetworkFirewall", "AWS::NetworkFirewall::Firewall", <<>>,
            [FirewallPolicyArn |-> <<Ref("NetworkFirewallPolicy")>>,
             VpcId |-> <<Ref(vpcResourceName(o))>>,
             SubnetMappings |-> [number \in 1..SingleAZLoopCount(o, n) |->
                                    Ref(Name("FirewallSubnet", number, ""))]])>>),
        Privileges(<<"network-firewall:CreateFirewall", "network-firewall:DescribeFirewall",
                     "network-firewall:AssociateFirewallPolicy",
                     "network-firewall:AssociateSubnets">>,
                   <<"network-firewall:DeleteFirewall", "logs:ListLogDeliveries">>)>>))

\* a transit gateway attachment of a VPC, on the VPC's transit gateway subnets
TransitGatewayAttachment(id, vpc, subnetPrefix, n) ==
    Resource(id, "AWS::EC2::TransitGatewayAttachment", <<>>,
        [TransitGatewayId |-> <<Ref("TransitGateway")>>,
         VpcId |-> <<Ref(vpc)>>,
         SubnetIds |-> [number \in 1..n |-> Ref(Name(subnetPrefix, number, ""))]])

TransitGateway(o, n) ==
    When(isHubNSpoke(o), Sequence(<<
        Section("Resources", <<Resource("TransitGateway", "AWS::EC2::TransitGateway", <<>>,
                             NoProperties)>>),
        Privileges(<<"ec2:CreateTransitGateway", "ec2:ModifyTransitGateway",
                     "ec2:DescribeTransitGateways">>,
                   <<"ec2:DeleteTransitGateway">>),
        Section("Resources", <<TransitGatewayAttachment("HubVpcTransitGatewayAttachment", "HubVpc",
                                             "HubVPCTransitGatewaySubnet", n)>>),
        Privileges(<<"ec2:CreateTransitGatewayVpcAttachment",
                     "ec2:DescribeTransitGatewayVpcAttachments">>,
                   <<"ec2:DeleteTransitGatewayVpcAttachment">>),
        Section("Resources", <<TransitGatewayAttachment("DBSVpcTransitGatewayAttachment", "DBSVpc",
                                             "DBSVPCTransitGatewaySubnet", n)>>)>>))

(***************************************************************************)
(* __defineNetworking: route tables.                                       *)
(***************************************************************************)
RouteTable(id, vpc) == Resource(id, "AWS::EC2::RouteTable", <<>>, [VpcId |-> <<Ref(vpc)>>])

\* mutant: a route is inserted without its DependsOn
Route_noDependsOn(id, dependsOn, routeTable, destination, target, value) ==
    Resource(id, "AWS::EC2::Route", <<>>,
        [RouteTableId |-> <<Ref(routeTable)>>,
         DestinationCidrBlock |-> <<Literal(destination)>>]
        @@ (target :> <<value>>))

\* a route of a VPC route table: target is the property naming the next hop
Route(id, dependsOn, routeTable, destination, target, value) ==
    Resource(id, "AWS::EC2::Route", dependsOn,
        [RouteTableId |-> <<Ref(routeTable)>>,
         DestinationCidrBlock |-> <<Literal(destination)>>]
        @@ (target :> <<value>>))

SubnetRouteTableAssociation(id, dependsOn, routeTable, subnet) ==
    Resource(id, "AWS::EC2::SubnetRouteTableAssociation", dependsOn,
        [RouteTableId |-> <<Ref(routeTable)>>, SubnetId |-> <<Ref(subnet)>>])

\* mutant: the index of the zone of the route, also under isUsingSingleAZ
idx_ownZone(o, number) == number - 1

\* idx = 0 if isUsingSingleAZ else iAZ
idx(o, number) == IF isUsingSingleAZ(o) THEN 0 ELSE number - 1

\* the VPC endpoint of the network firewall in the zone at position index
FirewallEndpointId(index) ==
    [GetAtt("NetworkFirewall", "EndpointIds") EXCEPT !.select = index]

\* mutant: the firewall and the NAT gateway are looked at before the architecture
ClusterDefaultRoute_hubLast(o, number) ==
    LET id == Name("RouteToInternetInDBSClusterSubnetRouteTable", number, "")
        routeTable == Name("DBSClusterSubnetRouteTable", number, "")
    IN IF ~(isHubNSpoke(o) \/ isInternetEnabled(o)) THEN <<>>
       ELSE IF isInternetEnabled(o) /\ isNetworkFirewall(o)
       THEN <<Route(id, <<>>, routeTable, "0.0.0.0/0",
                    "VpcEndpointId", FirewallEndpointId(idx(o, number)))>>
       ELSE IF isInternetEnabled(o)
       THEN <<Route(id, <<>>, routeTable, "0.0.0.0/0",
                    "GatewayId", Ref(Name("NatGateway", idx(o, number) + 1, "")))>>
       ELSE <<Route(id, <<"DBSVpcTransitGatewayAttachment">>, routeTable, "0.0.0.0/0",
                    "TransitGatewayId", Ref("TransitGateway"))>>

\* the route a cluster route table sends 0.0.0.0/0 along, if any
ClusterDefaultRoute(o, number) ==
    LET id == Name("RouteToInternetInDBSClusterSubnetRouteTable", number, "")
        routeTable == Name("DBSClusterSubnetRouteTable", number, "")
    IN IF ~(isHubNSpoke(o) \/ isInternetEnabled(o)) THEN <<>>
       ELSE IF isHubNSpoke(o)
       THEN <<Route(id, <<"DBSVpcTransitGatewayAttachment">>, routeTable, "0.0.0.0/0",
                    "TransitGatewayId", Ref("TransitGateway"))>>
       ELSE IF isNetworkFirewall(o)
       THEN <<Route(id, <<>>, routeTable, "0.0.0.0/0",
                    "VpcEndpointId", FirewallEndpointId(idx(o, number)))>>
       ELSE <<Route(id, <<>>, routeTable, "0.0.0.0/0",
                    "GatewayId", Ref(Name("NatGateway", idx(o, number) + 1, "")))>>

ClusterRouteTables(o, n) ==
    Then(ForEach([number \in 1..n |->
            LET route == ClusterDefaultRoute(o, number) IN
            Section("Resources",
                <<RouteTable(Name("DBSClusterSubnetRouteTable", number, ""), "DBSVpc")>>
                \o route
                \o <<SubnetRouteTableAssociation(
                        Name("DBSClusterSubnet", number, "RouteTableAssociation"),
                        [i \in DOMAIN route |-> route[i].id],
                        Name("DBSClusterSubnetRouteTable", number, ""),
                        Name("DBSClusterSubnet", number, ""))>>)]),
         Privileges(<<"ec2:CreateRouteTable", "ec2:DescribeRouteTables", "ec2:CreateRoute",
                      "ec2:AssociateRouteTable">>,
                    <<"ec2:DeleteRouteTable", "ec2:DeleteRoute",
                      "ec2:DisassociateRouteTable">>))

EndpointRouteTables(o, n) ==
    LET route == IF isHubNSpoke(o)
                 THEN <<Route("RouteToInternetInHubVpcEndpointSubnetsRouteTable",
                              <<"HubVpcTransitGatewayAttachment">>,
                              "EndpointSubnetsRouteTable", "10.0.0.0/8",
                              "TransitGatewayId", Ref("TransitGateway"))>>
                 ELSE <<>>
    IN When(isPrivateLinkEnabled(o), Then(
           Section("Resources", <<RouteTable("EndpointSubnetsRouteTable", vpcResourceName(o))>> \o route),
           ForEach([number \in 1..n |-> Section("Resources", <<SubnetRouteTableAssociation(
               Name("EndpointSubnet", number, "RouteTableAssociation"),
               [i \in DOMAIN route |-> route[i].id],
               "EndpointSubnetsRouteTable",
               Name("VPCEndpointSubnet", number, ""))>>)])))

FirewallRouteTables(o, n) ==
    When(isNetworkFirewall(o), ForEach([number \in 1..(SingleAZLoopCount(o, n)) |->
        LET rtResourceName == Name("FirewallRouteTable", number, "")
            rtRouteResourceName == Name("RouteToInternetInFirewallRouteTable", number, "")
            rtRouteToClustersResourceName == Name("RouteToVPCsInFirewallRouteTable", number, "")
        IN Section("Resources",
            <<RouteTable(rtResourceName, vpcResourceName(o)),
              Route(rtRouteResourceName, <<>>, rtResourceName, "0.0.0.0/0",
                    "GatewayId", Ref(Name("NatGateway", number, "")))>>
            \o (IF isHubNSpoke(o)
                THEN <<Route(rtRouteToClustersResourceName,
                             <<"HubVpcTransitGatewayAttachment">>, rtResourceName,
                             "10.0.0.0/8", "TransitGatewayId", Ref("TransitGateway"))>>
                ELSE <<>>)
            \o <<SubnetRouteTableAssociation(
                    Name("FirewallSubnetRouteTable", number, "Association"),
                    IF isHubNSpoke(o)
                    THEN <<rtRouteResourceName, rtRouteToClustersResourceName>>
                    ELSE <<rtRouteResourceName>>,
                    rtResourceName,
                    Name("FirewallSubnet", number, ""))>>)]))

\* the route of a NAT route table back to 10.0.0.0/8, if any
ReturnRouteInNatRouteTable(o, number) ==
    LET id == Name("ReturnRouteInNatRouteTable", number, "")
        routeTable == Name("NatRouteTable", number, "")
    IN IF ~(isNetworkFirewall(o) \/ isHubNSpoke(o)) THEN <<>>
       ELSE IF isNetworkFirewall(o)
       THEN <<Route(id, <<>>, routeTable, "10.0.0.0/8",
                    "VpcEndpointId", FirewallEndpointId(number - 1))>>
       ELSE <<Route(id, <<"HubVpcTransitGatewayAttachment">>, routeTable, "10.0.0.0/8",
                    "TransitGatewayId", Ref("TransitGateway"))>>

NatRouteTables(o, n) ==
    When(isInternetEnabled(o), ForEach([number \in 1..(SingleAZLoopCount(o, n)) |->
        LET rtResourceName == Name("NatRouteTable", number, "")
            routeToInternetResourceName == Name("RouteToInternetInNatSubnetRouteTable", number, "")
            returnRoute == ReturnRouteInNatRouteTable(o, number)
        IN Section("Resources",
            <<RouteTable(rtResourceName, vpcResourceName(o)),
              Route(routeToInternetResourceName, <<"VpcIgwAttachment">>, rtResourceName,
                    "0.0.0.0/0", "GatewayId", Ref("Igw"))>>
            \o returnRoute
            \o <<SubnetRouteTableAssociation(
                    Name("NatSubnetRouteTable", number, "Association"),
                    <<routeToInternetResourceName>>
                        \o [i \in DOMAIN returnRoute |-> returnRoute[i].id],
                    rtResourceName,
                    Name("NatSubnet", number, ""))>>)]))

\* the route a hub transit gateway subnet sends 0.0.0.0/0 along, if any
HubRouteToInternet(o, number) ==
    LET id == Name("RouteToInternetInHubVpcTransitGatewaySubnetsRouteTable", number, "")
        routeTable == Name("HubVpcTransitGatewaySubnetsRouteTable", number, "")
    IN IF ~isInternetEnabled(o) THEN <<>>
       ELSE IF isNetworkFirewall(o)
       THEN <<Route(id, <<>>, routeTable, "0.0.0.0/0",
                    "VpcEndpointId", FirewallEndpointId(idx(o, number)))>>
       ELSE <<Route(id, <<>>, routeTable, "0.0.0.0/0",
                    "GatewayId", Ref(Name("NatGateway", idx(o, number) + 1, "")))>>

HubTransitGatewaySubnetsRouteTables(o, n) ==
    When(isHubNSpoke(o), ForEach([number \in 1..n |->
        LET rtHubResourceName == Name("HubVpcTransitGatewaySubnetsRouteTable", number, "")
            rtHubRouteToSpokeVpcsResourceName ==
                Name("RouteToSpokeVpcsInHubVpcTransitGatewaySubnetsRouteTable", number, "")
            routeToInternet == HubRouteToInternet(o, number)
        IN Section("Resources",
            <<RouteTable(rtHubResourceName, "HubVpc"),
              Route(rtHubRouteToSpokeVpcsResourceName, <<"HubVpcTransitGatewayAttachment">>,
                    rtHubResourceName, "10.0.0.0/8",
                    "TransitGatewayId", Ref("TransitGateway"))>>
            \o routeToInternet
            \o <<SubnetRouteTableAssociation(
                    Name("HubVpcTransitGatewaySubnet1RouteTable", number, "Association"),
                    <<rtHubRouteToSpokeVpcsResourceName>>
                        \o [i \in DOMAIN routeToInternet |-> routeToInternet[i].id],
                    rtHubResourceName,
                    Name("HubVPCTransitGatewaySubnet", number, ""))>>)]))

(***************************************************************************)
(* __defineNetworking: the route tables of the transit gateway.            *)
(***************************************************************************)
\* a route of a transit gateway route table; attachment is <<>> for a blackhole
TransitGatewayRoute(id, routeTable, destination, attachment) ==
    Resource(id, "AWS::EC2::TransitGatewayRoute", <<>>,
        [TransitGatewayRouteTableId |-> <<Ref(routeTable)>>,
         DestinationCidrBlock |-> <<destination>>]
        @@ [property \in IF attachment = <<>> THEN {} ELSE {"TransitGatewayAttachmentId"}
               |-> [i \in DOMAIN attachment |-> Ref(attachment[i])]])

TransitGatewayRouteTableAssociation(id, dependsOn, routeTable, attachment) ==
    Resource(id, "AWS::EC2::TransitGatewayRouteTableAssociation", dependsOn,
        [TransitGatewayRouteTableId |-> <<Ref(routeTable)>>,
         TransitGatewayAttachmentId |-> <<Ref(attachment)>>])

TransitGatewayRouteTablePropagation(id, dependsOn, attachment, routeTable) ==
    Resource(id, "AWS::EC2::TransitGatewayRouteTablePropagation", dependsOn,
        [TransitGatewayAttachmentId |-> <<Ref(attachment)>>,
         TransitGatewayRouteTableId |-> <<Ref(routeTable)>>])

\* routeDependencies when the association of the Databricks VPC attachment is added
routeDependencies(o, n) ==
    [number \in 1..n |-> Name("RouteToEndpointSubnet", number, "InTransitGatewayRouteTableDbs")]
    \o (IF isInternetEnabled(o) THEN <<"RouteToInternetInTransitGatewayRouteTable">> ELSE <<>>)
    \o <<"BlockRouteToVPCsInTransitGatewayRouteTable">>

TransitGatewayRouteTables(o, n) ==
    When(isHubNSpoke(o), Sequence(<<
        Section("Resources", <<Resource("TransitGatewayRouteTableDbs",
            "AWS::EC2::TransitGatewayRouteTable", <<>>,
            [TransitGatewayId |-> <<Ref("TransitGateway")>>])>>),
        Privileges(<<"ec2:CreateTransitGatewayRouteTable",
                     "ec2:DescribeTransitGatewayRouteTables">>,
                   <<"ec2:DeleteTransitGatewayRouteTable">>),
        ForEach([number \in 1..n |-> Section("Resources", <<TransitGatewayRoute(
            Name("RouteToEndpointSubnet", number, "InTransitGatewayRouteTableDbs"),
            "TransitGatewayRouteTableDbs",
            Ref(Name("VPCEndpointSubnet", number, "CidrBlock")),
            <<"HubVpcTransitGatewayAttachment">>)>>)]),
        Privileges(<<"ec2:CreateTransitGatewayRoute", "ec2:DescribeTransitGatewayRouteTables",
                     "ec2:SearchTransitGatewayRoutes">>,
                   <<"ec2:DeleteTransitGatewayRoute">>),
        When(isInternetEnabled(o), Section("Resources", <<TransitGatewayRoute(
            "RouteToInternetInTransitGatewayRouteTable", "TransitGatewayRouteTableDbs",
            Literal("0.0.0.0/0"), <<"HubVpcTransitGatewayAttachment">>)>>)),
        Section("Resources", <<
            TransitGatewayRoute("BlockRouteToVPCsInTransitGatewayRouteTable",
                "TransitGatewayRouteTableDbs", Literal("10.0.0.0/8"), <<>>),
            TransitGatewayRouteTableAssociation(
                "TransitGatewayAttachmentForDBSVpcRouteTableAssociation",
                routeDependencies(o, n),
                "TransitGatewayRouteTableDbs", "DBSVpcTransitGatewayAttachment")>>),
        Privileges(<<"ec2:AssociateTransitGatewayRouteTable",
                     "ec2:GetTransitGatewayRouteTableAssociations">>,
                   <<"ec2:DisassociateTransitGatewayRouteTable">>),
        Section("Resources", <<
            Resource("TransitGatewayRouteTableHub", "AWS::EC2::TransitGatewayRouteTable",
                     <<>>, [TransitGatewayId |-> <<Ref("TransitGateway")>>]),
            TransitGatewayRoute("RouteToDBSVpcInTransitGatewayRouteTable",
                "TransitGatewayRouteTableDbs", Ref("DBSVPCCidrBlock"),
                <<"DBSVpcTransitGatewayAttachment">>),
            TransitGatewayRouteTableAssociation(
                "TransitGatewayAttachmentForHubVpcRouteTableAssociation",
                <<"RouteToDBSVpcInTransitGatewayRouteTable">>,
                "TransitGatewayRouteTableDbs", "HubVpcTransitGatewayAttachment"),
            TransitGatewayRouteTablePropagation(
                "TransitGatewayAttachmentForHubVpcRouteTablePropagation",
                <<"TransitGatewayAttachmentForDBSVpcRouteTableAssociation">>,
                "HubVpcTransitGatewayAttachment", "TransitGatewayRouteTableDbs"),
            TransitGatewayRouteTablePropagation(
                "TransitGatewayAttachmentForDBSVpcRouteTablePropagation",
                <<"TransitGatewayAttachmentForHubVpcRouteTableAssociation">>,
                "DBSVpcTransitGatewayAttachment", "TransitGatewayRouteTableHub")>>),
        Privileges(<<"ec2:EnableTransitGatewayRouteTablePropagation",
                     "ec2:GetTransitGatewayRouteTablePropagations">>,
                   <<"ec2:DisableTransitGatewayRouteTablePropagation">>)>>))

(***************************************************************************)
(* __defineNetworking: endpoints and security groups.                      *)
(***************************************************************************)
S3GatewayEndpoint(n) ==
    Then(Section("Resources", <<Resource("S3GatewayEndpoint", "AWS::EC2::VPCEndpoint", <<>>,
            [VpcId |-> <<Ref("DBSVpc")>>,
             RouteTableIds |-> [number \in 1..n |->
                                   Ref(Name("DBSClusterSubnetRouteTable", number, ""))]])>>),
         Privileges(<<"ec2:CreateVpcEndpoint", "ec2:DescribeVpcEndpoints">>,
                    <<"ec2:DeleteVpcEndpoints">>))

\* an ingress or egress rule of a security group; peer is the property that names
\* the group itself as source or destination, "" when the rule names a CIDR
SecurityGroupRule(group, suffix, direction, peer) ==
    Resource(group \o suffix, "AWS::EC2::SecurityGroup" \o direction, <<>>,
        [GroupId |-> <<GetAtt(group, "GroupId")>>]
        @@ [property \in {peer} \ {""} |-> <<GetAtt(group, "GroupId")>>])

SecurityGroupForDatabricksClusters(o) ==
    LET group == "SecurityGroupForDatabricksClusters" IN
    Sequence(<<
        Section("Resources", <<Resource(group, "AWS::EC2::SecurityGroup", <<>>,
                             [VpcId |-> <<Ref("DBSVpc")>>])>>),
        Privileges(<<"ec2:CreateSecurityGroup", "ec2:DescribeSecurityGroups",
                     "ec2:ModifySecurityGroupRules">>,
                   <<"ec2:DeleteSecurityGroup">>),
        Section("Resources", <<SecurityGroupRule(group, "DefaultTcpIngress", "Ingress",
                                      "SourceSecurityGroupId")>>),
        Privileges(<<"ec2:AuthorizeSecurityGroupIngress">>,
                   <<"ec2:RevokeSecurityGroupIngress">>),
        Section("Resources", <<
            SecurityGroupRule(group, "DefaultUdpIngress", "Ingress", "SourceSecurityGroupId"),
            SecurityGroupRule(group, "DefaultTcpEgress", "Egress",
                              "DestinationSecurityGroupId")>>),
        Privileges(<<"ec2:AuthorizeSecurityGroupEgress">>,
                   <<"ec2:RevokeSecurityGroupEgress">>),
        Section("Resources",
            <<SecurityGroupRule(group, "DefaultUdpEgress", "Egress",
                                "DestinationSecurityGroupId"),
              SecurityGroupRule(group, "EgressForHttps", "Egress", ""),
              SecurityGroupRule(group, "EgressForMetastore", "Egress", "")>>
            \o (IF isPrivateLinkEnabled(o)
                THEN <<SecurityGroupRule(group, "EgressForPrivateLink", "Egress", "")>>
                ELSE <<>>)
            \o <<SecurityGroupRule(group, "EgressForInternalCalls", "Egress", "")>>),
        Section("Outputs", <<Entry("DatabricksSecurityGroupId", <<GetAtt(group, "GroupId")>>)>>)>>)

\* an interface endpoint in the endpoint subnets; mapKey is the key of the
\* DatabricksAddresses mapping its ServiceName is looked up with, "" for an AWS service
InterfaceEndpoint(id, mapKey, o, n) ==
    Resource(id, "AWS::EC2::VPCEndpoint", <<>>,
        [property \in IF mapKey = "" THEN {} ELSE {"ServiceName"}
            |-> <<FindInMap("DatabricksAddresses", mapKey)>>]
        @@ [VpcId |-> <<Ref(vpcResourceName(o))>>,
            SecurityGroupIds |-> <<GetAtt("SecurityGroupForEndpoints", "GroupId")>>,
            SubnetIds |-> [number \in 1..n |-> Ref(Name("VPCEndpointSubnet", number, ""))]])

\* the private hosted zone that resolves an endpoint of the hub from the
\* Databricks VPC, and its alias record
PrivateHostedZone(zone, record, endpoint, mapKey) ==
    LET name == [property \in IF mapKey = "" THEN {} ELSE {"Name"}
                    |-> <<FindInMap("DatabricksAddresses", mapKey)>>]
    IN <<Resource(zone, "AWS::Route53::HostedZone", <<>>,
                  name @@ [VPCs |-> <<Ref("DBSVpc")>>]),
         Resource(record, "AWS::Route53::RecordSet", <<>>,
                  name @@ [AliasTarget |-> <<GetAtt(endpoint, "DnsEntries"),
                                             GetAtt(endpoint, "DnsEntries")>>,
                           HostedZoneId |-> <<Ref(zone)>>])>>

InterfaceEndpoints(o, n) ==
    When(isPrivateLinkEnabled(o), Sequence(<<
        Section("Resources", <<
            Resource("SecurityGroupForEndpoints", "AWS::EC2::SecurityGroup", <<>>,
                     [VpcId |-> <<Ref(vpcResourceName(o))>>]),
            SecurityGroupRule("SecurityGroupForEndpoints", "DefaultTcpIngress", "Ingress", ""),
            SecurityGroupRule("SecurityGroupForEndpoints", "DefaultUdpIngress", "Ingress",
                              "")>>),
        Section("Resources", <<InterfaceEndpoint("STSInterfaceEndpoint", "", o, n)>>),
        When(isHubNSpoke(o), Sequence(<<
            Section("Resources", PrivateHostedZone("PrivateHostedZoneForSTSEndoint",
                "RecordSetForPrivateHostedZoneForSTSEndoint", "STSInterfaceEndpoint", "")),
            Privileges(<<"route53:CreateHostedZone", "route53:AssociateVPCWithHostedZone",
                         "route53:GetChange", "route53:ChangeTagsForResource",
                         "route53:GetHostedZone", "route53:ChangeResourceRecordSets",
                         "route53:ListHostedZones">>,
                       <<"route53:DeleteHostedZone", "route53:DisassociateVPCFromHostedZone",
                         "route53:ListQueryLoggingConfigs">>)>>)),
        Section("Resources", <<InterfaceEndpoint("KinesisInterfaceEndpoint", "", o, n)>>),
        When(isHubNSpoke(o),
            Section("Resources", PrivateHostedZone("PrivateHostedZoneForKinesisEndoint",
                "RecordSetForPrivateHostedZoneForKinesisStreamEndoint",
                "KinesisInterfaceEndpoint", ""))),
        Section("Resources", <<InterfaceEndpoint("DBSRestApiInterfaceEndpoint", "workspaceEP", o, n)>>),
        Privileges(<<"route53:AssociateVPCWithHostedZone">>, <<>>),
        Section("Outputs", <<Entry("DatabricksWorkspaceVpcEndpoint",
                        <<Ref("DBSRestApiInterfaceEndpoint")>>)>>),
        When(isHubNSpoke(o),
            Section("Resources", PrivateHostedZone("PrivateHostedZoneForDatabricksWorkspaceEndoint",
                "RecordSetForPrivateHostedZoneForDatabricksWorkspaceEndoint",
                "DBSRestApiInterfaceEndpoint", "workspace"))),
        Section("Resources", <<InterfaceEndpoint("DBSRelayApiInterfaceEndpoint", "backendEP", o, n)>>),
        Section("Outputs", <<Entry("DatabricksBackendVpcEndpoint",
                        <<Ref("DBSRelayApiInterfaceEndpoint")>>)>>),
        When(isHubNSpoke(o),
            Section("Resources", PrivateHostedZone("PrivateHostedZoneForDatabricksBackendEndoint",
                "RecordSetForPrivateHostedZoneForDatabricksBackendEndoint",
                "DBSRelayApiInterfaceEndpoint", "backend")))>>))

\* everything __defineNetworking adds once the planner has returned networkConfig
Networking(o, n, networkConfig) ==
    Sequence(<<
        DatabricksVpc(networkConfig), HubVpc(o, networkConfig), InternetGateway(o),
        ClusterSubnets(n, networkConfig), TransitGatewaySubnets(o, n, networkConfig),
        EndpointSubnets(o, n, networkConfig), FirewallSubnets(o, n, networkConfig),
        NatSubnets(o, n, networkConfig), NatGateways(o, n), NetworkFirewall(o, n),
        TransitGateway(o, n), ClusterRouteTables(o, n), EndpointRouteTables(o, n),
        FirewallRouteTables(o, n), NatRouteTables(o, n),
        HubTransitGatewaySubnetsRouteTables(o, n), TransitGatewayRouteTables(o, n),
        S3GatewayEndpoint(n), SecurityGroupForDatabricksClusters(o),
        InterfaceEndpoints(o, n)>>)

(***************************************************************************)
(* __defineWorkspaceIamRole                                                *)
(***************************************************************************)
WorkspaceIamRole ==
    Sequence(<<
        Section("Resources", <<Resource("WorkspaceIamRole", "AWS::IAM::Role", <<>>,
            [AssumeRolePolicyDocument |-> <<Ref("DatabricksAccountId")>>])>>),
        Privileges(<<"iam:CreateRole", "iam:GetRole", "iam:TagRole", "iam:PutRolePolicy",
                     "iam:GetRolePolicy">>,
                   <<"iam:DeleteRole", "iam:DeleteRolePolicy">>),
        Section("Outputs", <<Entry("WorkspaceIAMRole", <<GetAtt("WorkspaceIamRole", "Arn")>>)>>)>>)

(***************************************************************************)
(* CustomerManagedKeys.py and __defineCustomerManagerKeyResources          *)
(***************************************************************************)
managedServicesPolicyStatement(databricksIdRefName) ==
    <<
      <<Sid("Allow Databricks to use KMS key for managed services in the control plane"),
        Ref(databricksIdRefName)>>
    >>

\* mutant: the EBS statement names the role of the storage credential
workspaceStoragePolicyStatement_storageRole(databricksIdRefName, iamRoleResourceName) ==
    <<
      <<Sid("Allow Databricks to use KMS key for DBFS"), Ref(databricksIdRefName)>>,
      <<Sid("Allow Databricks to use KMS key for DBFS (Grants)"), Ref(databricksIdRefName)>>,
      <<Sid("Allow Databricks to use KMS key for EBS"),
        GetAtt("StorageCredentialIAMRole", "Arn")>>
    >>

workspaceStoragePolicyStatement(databricksIdRefName, iamRoleResourceName) ==
    <<
      <<Sid("Allow Databricks to use KMS key for DBFS"), Ref(databricksIdRefName)>>,
      <<Sid("Allow Databricks to use KMS key for DBFS (Grants)"), Ref(databricksIdRefName)>>,
      <<Sid("Allow Databricks to use KMS key for EBS"), GetAtt(iamRoleResourceName, "Arn")>>
    >>

\* mutant: with Both, the storage statements are appended before the managed services one
KeyPolicyStatement_storageFirst(usage) ==
    << <<Sid("Enable Owner Account Permissions")>> >>
    \o (IF usage = "MANAGED_SERVICES"
        THEN managedServicesPolicyStatement("DatabricksAccountId")
        ELSE IF usage = "STORAGE"
        THEN workspaceStoragePolicyStatement("DatabricksAccountId", "WorkspaceIamRole")
        ELSE IF usage = "BOTH"
        THEN workspaceStoragePolicyStatement("DatabricksAccountId", "WorkspaceIamRole")
             \o managedServicesPolicyStatement("DatabricksAccountId")
        ELSE <<>>)

\* KeyPolicy.Statement of EncryptionKey when the method returns or raises: the
\* statement the key is inserted with, then the statements of the usage
KeyPolicyStatement(usage) ==
    << <<Sid("Enable Owner Account Permissions")>> >>
    \o (IF usage = "MANAGED_SERVICES"
        THEN managedServicesPolicyStatement("DatabricksAccountId")
        ELSE IF usage = "STORAGE"
        THEN workspaceStoragePolicyStatement("DatabricksAccountId", "WorkspaceIamRole")
        ELSE IF usage = "BOTH"
        THEN managedServicesPolicyStatement("DatabricksAccountId")
             \o workspaceStoragePolicyStatement("DatabricksAccountId", "WorkspaceIamRole")
        ELSE <<>>)

\* what the method has added when it returns, or when it raises for a usage it has
\* no branch for
CustomerManagerKeyResources(usage) ==
    LET EncryptionKey == Resource("EncryptionKey", "AWS::KMS::Key", <<>>,
                                  [KeyPolicy |-> KeyPolicyStatement(usage)])
    IN
    IF usage = "NONE" THEN Nothing
    ELSE IF usage \notin {"MANAGED_SERVICES", "STORAGE", "BOTH"}
    THEN Section("Resources", <<EncryptionKey>>)
    ELSE Sequence(<<
        Section("Resources", <<EncryptionKey>>),
        Privileges(<<"kms:CreateKey", "kms:DescribeKey", "kms:EnableKey", "kms:PutKeyPolicy",
                     "kms:TagResource", "kms:ListResourceTags">>,
                   <<"kms:DisableKey", "kms:ScheduleKeyDeletion", "kms:UntagResource">>),
        Section("Outputs", <<Entry("EncryptionKeyArn", <<GetAtt("EncryptionKey", "Arn")>>)>>),
        Section("Resources", <<Resource("EncryptionKeyAlias", "AWS::KMS::Alias", <<>>,
                             [TargetKeyId |-> <<Ref("EncryptionKey")>>])>>),
        Privileges(<<"kms:CreateAlias">>, <<"kms:DeleteAlias">>),
        Section("Outputs", <<Entry("EncryptionKeyAlias", <<Ref("EncryptionKeyAlias")>>)>>)>>)

(***************************************************************************)
(* The privilege sets and __generatePolicyDocument.                        *)
(***************************************************************************)
\* mutant: the sets of an object that has built before are kept, the create-time
\* set for both
set_kept == IF build_pc = "constructed" THEN {} ELSE requiredPrivileges

\* set()
set == {}

\* mutant: add forgets what the set held
add_replace(privileges, capability) == {capability}

\* set.add
add(privileges, capability) == privileges \cup {capability}

RECURSIVE AddAll(_, _)
\* the add calls of a stretch, in program order: those of its first half, then
\* those of its second half on the set the first half leaves (the test on that
\* set has it evaluated before the second half starts)
AddAll(privileges, capabilities) ==
    IF capabilities = <<>> THEN privileges
    ELSE IF Len(capabilities) = 1 THEN add(privileges, capabilities[1])
    ELSE LET half == Len(capabilities) \div 2
             first == AddAll(privileges, SubSeq(capabilities, 1, half))
             second == SubSeq(capabilities, half + 1, Len(capabilities))
         IN IF first = {} THEN AddAll({}, second) ELSE AddAll(first, second)

\* the capability strings the builder adds, in the order of Python's < on str
Capabilities ==
    <<"ec2:AllocateAddress", "ec2:AssociateAddress", "ec2:AssociateRouteTable",
      "ec2:AssociateTransitGatewayRouteTable", "ec2:AttachInternetGateway",
      "ec2:AuthorizeSecurityGroupEgress", "ec2:AuthorizeSecurityGroupIngress",
      "ec2:CreateInternetGateway", "ec2:CreateNatGateway", "ec2:CreateRoute",
      "ec2:CreateRouteTable", "ec2:CreateSecurityGroup", "ec2:CreateSubnet",
      "ec2:CreateTags", "ec2:CreateTransitGateway", "ec2:CreateTransitGatewayRoute",
      "ec2:CreateTransitGatewayRouteTable", "ec2:CreateTransitGatewayVpcAttachment",
      "ec2:CreateVpc", "ec2:CreateVpcEndpoint", "ec2:DeleteInternetGateway",
      "ec2:DeleteNatGateway", "ec2:DeleteRoute", "ec2:DeleteRouteTable",
      "ec2:DeleteSecurityGroup", "ec2:DeleteSubnet", "ec2:DeleteTags",
      "ec2:DeleteTransitGateway", "ec2:DeleteTransitGatewayRoute",
      "ec2:DeleteTransitGatewayRouteTable", "ec2:DeleteTransitGatewayVpcAttachment",
      "ec2:DeleteVpc", "ec2:DeleteVpcEndpoints", "ec2:DescribeAddresses",
      "ec2:DescribeAvailabilityZones", "ec2:DescribeInternetGateways",
      "ec2:DescribeNatGateways", "ec2:DescribeRouteTables", "ec2:DescribeSecurityGroups",
      "ec2:DescribeSubnets", "ec2:DescribeTransitGatewayRouteTables",
      "ec2:DescribeTransitGatewayVpcAttachments", "ec2:DescribeTransitGateways",
      "ec2:DescribeVpcEndpoints", "ec2:DescribeVpcs", "ec2:DetachInternetGateway",
      "ec2:DisableTransitGatewayRouteTablePropagation", "ec2:DisassociateAddress",
      "ec2:DisassociateRouteTable", "ec2:DisassociateTransitGatewayRouteTable",
      "ec2:EnableTransitGatewayRouteTablePropagation",
      "ec2:GetTransitGatewayRouteTableAssociations",
      "ec2:GetTransitGatewayRouteTablePropagations", "ec2:ModifySecurityGroupRules",
      "ec2:ModifyTransitGateway", "ec2:ModifyVpcAttribute", "ec2:ReleaseAddress",
      "ec2:RevokeSecurityGroupEgress", "ec2:RevokeSecurityGroupIngress",
      "ec2:SearchTransitGatewayRoutes", "iam:CreateRole", "iam:DeleteRole",
      "iam:DeleteRolePolicy", "iam:GetRole", "iam:GetRolePolicy", "iam:PutRolePolicy",
      "iam:TagRole", "kms:CreateAlias", "kms:CreateKey", "kms:DeleteAlias",
      "kms:DescribeKey", "kms:DisableKey", "kms:EnableKey", "kms:ListResourceTags",
      "kms:PutKeyPolicy", "kms:ScheduleKeyDeletion", "kms:TagResource",
      "kms:UntagResource", "logs:ListLogDeliveries",
      "network-firewall:AssociateFirewallPolicy", "network-firewall:AssociateSubnets",
      "network-firewall:CreateFirewall", "network-firewall:CreateFirewallPolicy",
      "network-firewall:CreateRuleGroup", "network-firewall:DeleteFirewall",
      "network-firewall:DeleteFirewallPolicy", "network-firewall:DeleteRuleGroup",
      "network-firewall:DescribeFirewall", "network-firewall:DescribeFirewallPolicy",
      "network-firewall:DescribeRuleGroup", "network-firewall:ListRuleGroups",
      "network-firewall:TagResource", "route53:AssociateVPCWithHostedZone",
      "route53:ChangeResourceRecordSets", "route53:ChangeTagsForResource",
      "route53:CreateHostedZone", "route53:DeleteHostedZone",
      "route53:DisassociateVPCFromHostedZone", "route53:GetChange",
      "route53:GetHostedZone", "route53:ListHostedZones",
      "route53:ListQueryLoggingConfigs", "s3:CreateBucket", "s3:DeleteBucket",
      "s3:DeleteBucketPolicy", "s3:GetBucketPolicy", "s3:PutBucketPolicy",
      "s3:PutBucketPublicAccessBlock", "s3:PutBucketTagging",
      "s3:PutEncryptionConfiguration">>

\* position of a capability in Capabilities: a < b on str is rank[a] < rank[b]
rank == [c \in {Capabilities[i] : i \in DOMAIN Capabilities} |->
            CHOOSE i \in DOMAIN Capabilities : Capabilities[i] = c]

\* the iteration orders of a set tried: a set of str is iterated in the order of the
\* hashes of its members, which changes from one interpreter run to the next
IterationOrders == {1, 50, 126}

\* list(privileges) under one iteration order: the members of the set in the order
\* of the slots they hash to
list(privileges, order) ==
    LET slot(c) == (rank[c] * order) % 127
        taken == SelectSeq([k \in 1..127 |-> k - 1],
                           LAMBDA k : \E c \in privileges : slot(c) = k)
    IN [i \in DOMAIN taken |-> CHOOSE c \in privileges : slot(c) = taken[i]]

\* mutant: the list is returned as it is
sorted_asIs(l) == l

\* sorted(l): each element at the position that the number of elements sorting
\* before it gives, in the order of str, equal elements in the order of l
sorted(l) ==
    LET before(j, i) == \/ rank[l[j]] < rank[l[i]]
                        \/ rank[l[j]] = rank[l[i]] /\ j < i
        placed == {<<1 + Cardinality({j \in DOMAIN l : before(j, i)}), l[i]>> :
                      i \in DOMAIN l}
    IN [p \in DOMAIN l |-> (CHOOSE e \in placed : e[1] = p)[2]]

\* __generatePolicyDocument
policyDocument(order) ==
    [Statement |-> <<
        [Sid |-> "RequiredForCreation",
         Action |-> sorted(list(requiredPrivileges, order))],
        [Sid |-> "RequiredForRollback",
         Action |-> sorted(list(requiredPrivilegesForRollback, order))]>>]

(***************************************************************************)
(* cloudFormationTemplateBodyParametersAndRequiredPermissions, one private *)
(* method per step; the planner's blocks are the steps of                  *)
(* __defineNetworking up to the return of its constructor.                 *)
(***************************************************************************)
\* the invocations of the build in the examples
ExampleInvocations == 2

\* the template __initialiseCloudFormationTemplate leaves: the sections and the
\* DatabricksAccountId parameter; Mappings only with private link
InitialTemplate(o) ==
    [Parameters |-> <<Parameter("DatabricksAccountId", <<>>)>>,
     Conditions |-> <<>>, Resources |-> <<>>, Outputs |-> <<>>]
    @@ [section \in IF isPrivateLinkEnabled(o) THEN {"Mappings"} ELSE {}
           |-> <<"DatabricksAddresses">>]

\* the template after the inserts of a stretch
Insert(template, stretch) ==
    [section \in DOMAIN template |->
        IF section \in {"Parameters", "Conditions", "Resources", "Outputs"}
        THEN template[section] \o stretch[section]
        ELSE template[section]]

\* a private method adding a stretch to the template and to the privilege sets
Define(from, to, stretch) ==
    /\ build_pc = from
    /\ build_pc' = to
    /\ cloudFormationTemplate' = Insert(cloudFormationTemplate, stretch)
    /\ requiredPrivileges' = AddAll(requiredPrivileges, stretch.requiredPrivileges)
    /\ requiredPrivilegesForRollback' =
           AddAll(requiredPrivilegesForRollback, stretch.requiredPrivilegesForRollback)
    /\ UNCHANGED <<customerManagedKeysOptions, returned, builders, calcVars, stackVars>>

\* CloudInfraBuilderForWorkspace.__init__ and CustomerManagedKeysOptions.__init__,
\* which stores any usage it is given. The parameter object was constructed without
\* an exception: the values of the examples, or too few nodes, or no hub address
InitBuild ==
    /\ opts \in NetworkArchitectureDesignOptions
    /\ args \in {a \in NetworkArchitectureParameters :
                   /\ a.vpcCidrStartingAddress = <<10, 10, 0, 0>>
                   /\ a.maxRunningNodesPerSubnet \in {9, ExampleNodes}
                   /\ a.availabilityZoneIndexes \in {<<0, 1>>, <<0, 1, 2>>}
                   /\ a.maxVpcEndpointsPerSubnet = 10
                   /\ a.hubVpcStartingAddress \in {None, <<10, 11, 0, 0>>}}
    /\ pc = "idle"
    /\ err = "none"
    /\ sizes = NoSizes
    /\ totalAddresses = 0
    /\ vpc_network = None
    /\ startingIP = 0
    /\ subnetsFor = <<>>
    /\ vpcConfig = <<>>
    /\ CalcIdle
    /\ StackIdle
    /\ customerManagedKeysOptions \in [usage : Usage \cup {"UNRECOGNISED"}]
    /\ cloudFormationTemplate = None
    /\ requiredPrivileges = None
    /\ requiredPrivilegesForRollback = None
    /\ build_pc = "constructed"
    /\ returned = <<>>
    /\ builders = 1

\* a second builder constructed with the same arguments
NewBuilder ==
    /\ build_pc = "returned"
    /\ Len(returned) < ExampleInvocations
    /\ build_pc' = "constructed"
    /\ builders' = builders + 1
    /\ cloudFormationTemplate' = None
    /\ requiredPrivileges' = None
    /\ requiredPrivilegesForRollback' = None
    /\ UNCHANGED <<customerManagedKeysOptions, returned, plannerVars, calcVars, stackVars>>

\* __initialiseCloudFormationTemplate, on a new builder or on one that has returned
InitialiseCloudFormationTemplate ==
    /\ \/ build_pc = "constructed"
       \/ build_pc = "returned" /\ Len(returned) < ExampleInvocations
    /\ build_pc' = "storage"
    /\ cloudFormationTemplate' = InitialTemplate(opts)
    /\ requiredPrivileges' = set
    /\ requiredPrivilegesForRollback' = set
    /\ UNCHANGED <<customerManagedKeysOptions, returned, builders, plannerVars, calcVars, stackVars>>

DefineStorageResource ==
    /\ Define("storage", "networking", StorageResource(customerManagedKeysOptions.usage))
    /\ UNCHANGED plannerVars

\* __defineNetworking up to the call of SubnetConfigurationBuilder(...)
DefineNetworkingPlanner ==
    /\ build_pc = "networking"
    /\ build_pc' = "planning"
    /\ pc' = "parameters"
    /\ err' = "none"
    /\ sizes' = NoSizes
    /\ totalAddresses' = 0
    /\ vpc_network' = None
    /\ startingIP' = 0
    /\ subnetsFor' = <<>>
    /\ vpcConfig' = <<>>
    /\ UNCHANGED <<opts, args, customerManagedKeysOptions, cloudFormationTemplate,
                   requiredPrivileges, requiredPrivilegesForRollback, returned, builders,
                   calcVars, stackVars>>

\* the exception of the planner leaves __defineNetworking and the build
DefineNetworkingRaised ==
    /\ build_pc = "planning"
    /\ pc = "raised"
    /\ build_pc' = "raised"
    /\ pc' = "idle"
    /\ UNCHANGED <<opts, args, err, sizes, totalAddresses, vpc_network, startingIP,
                   subnetsFor, vpcConfig, customerManagedKeysOptions,
                   cloudFormationTemplate, requiredPrivileges,
                   requiredPrivilegesForRollback, returned, builders, calcVars, stackVars>>

\* __defineNetworking from networkConfig = ....vpcConfig() on
DefineNetworking ==
    /\ pc = "done"
    /\ Define("planning", "identity", Networking(opts, n_availability_zones, vpcConfig))
    /\ pc' = "idle"
    /\ UNCHANGED <<opts, args, err, sizes, totalAddresses, vpc_network, startingIP,
                   subnetsFor, vpcConfig>>

DefineWorkspaceIamRole ==
    /\ Define("identity", "encryption", WorkspaceIamRole)
    /\ UNCHANGED plannerVars

\* __defineCustomerManagerKeyResources, returning or raising "Invalid CMK usage"
DefineCustomerManagerKeyResources ==
    LET usage == customerManagedKeysOptions.usage
        raises == usage \notin {"NONE", "MANAGED_SERVICES", "STORAGE", "BOTH"}
    IN /\ Define("encryption", IF raises THEN "raised" ELSE "generate",
                 CustomerManagerKeyResources(usage))
       /\ err' = IF raises THEN "Invalid CMK usage" ELSE err
       /\ UNCHANGED <<opts, args, pc, sizes, totalAddresses, vpc_network, startingIP,
                      subnetsFor, vpcConfig>>

\* the return statement: __generatePolicyDocument on the two sets
GeneratePolicyDocument ==
    /\ build_pc = "generate"
    /\ build_pc' = "returned"
    /\ \E order \in IterationOrders : returned' = Append(returned, policyDocument(order))
    /\ UNCHANGED <<customerManagedKeysOptions, cloudFormationTemplate, requiredPrivileges,
                   requiredPrivilegesForRollback, builders, plannerVars, calcVars, stackVars>>

NextBuild ==
    \/ NewBuilder
    \/ InitialiseCloudFormationTemplate
    \/ DefineStorageResource
    \/ DefineNetworkingPlanner
    \/ BuilderSizes
    \/ SingleTotal
    \/ SingleDefineVpc
    \/ SingleCarveClusters
    \/ SingleCarveVpcEndpoints
    \/ SingleCarveNetworkFirewall
    \/ SingleCarveNatGateway
    \/ SingleAssemble
    \/ WorkloadTotal
    \/ WorkloadDefineVpc
    \/ WorkloadCarveClusters
    \/ WorkloadCarveTransitGateway
    \/ WorkloadAssemble
    \/ HubStartingAddress
    \/ HubTotal
    \/ HubDefineVpc
    \/ HubCarveVpcEndpoints
    \/ HubCarveTransitGateway
    \/ HubCarveNetworkFirewall
    \/ HubCarveNatGateway
    \/ HubAssemble
    \/ DefineNetworkingRaised
    \/ DefineNetworking
    \/ DefineWorkspaceIamRole
    \/ DefineCustomerManagerKeyResources
    \/ GeneratePolicyDocument

SpecBuild == InitBuild /\ [][NextBuild]_vars

(***************************************************************************)
(* Vocabulary of the claims.                                               *)
(***************************************************************************)
ZonesMessages ==
    {"There should be at least 2 availability zones specified",
     "There should be no duplicates in the availability zones specified"}

NodesMessage == "Very small number of nodes per subnet specified"

HubAddressMessage ==
    "Hub and Spoke architecture requested without specifying the Hub VPC starting address"

NoRouteMessage ==
    "Hub and spoke architecture defined with no internet access and no VPC endpoints. No route to the control plane can be defined!"

ExfiltrationMessage == "Data Exfiltration Protection requested without Internet Access"

ConfigurationErrors ==
    ZonesMessages \cup {NodesMessage, HubAddressMessage, NoRouteMessage, ExfiltrationMessage}

\* the planner has stopped: it returned or it raised (no block starts at these labels)
Finished == pc \in {"done", "raised"}

Failed == pc = "raised" /\ err # "none" /\ Plan = <<>>

Degenerate ==
    \/ Len(args.availabilityZoneIndexes) < 2
    \/ \E i, j \in DOMAIN args.availabilityZoneIndexes :
          i # j /\ args.availabilityZoneIndexes[i] = args.availabilityZoneIndexes[j]
    \/ args.maxRunningNodesPerSubnet < 10

CidrFirst(c) == AddressToInt(c.addr)

CidrSize(c) == pow2(32 - c.prefix)

CidrLast(c) == CidrFirst(c) + CidrSize(c) - 1

\* the (role, position) pairs of the subnets of a VpcAndSubnetCIDR
SubnetKeys(v) == UNION {{<<t, i>> : i \in DOMAIN v.config[t]} : t \in DOMAIN v.config}

RECURSIVE Concat(_, _)
Concat(v, order) ==
    IF order = <<>> THEN <<>>
    ELSE (IF Head(order) \in DOMAIN v.config THEN v.config[Head(order)] ELSE <<>>)
         \o Concat(v, Tail(order))

\* the role order of the claim, per VPC
RoleOrder(v) ==
    IF v.vpcType = "HUB_VPC"
    THEN <<"VPCENDPOINTS", "TRANSITGATEWAY", "NETWORKFIREWALL", "NATGATEWAY">>
    ELSE <<"CLUSTERS", "TRANSITGATEWAY", "VPCENDPOINTS", "NETWORKFIREWALL", "NATGATEWAY">>

RECURSIVE SumSizes(_)
SumSizes(cidrs) == IF cidrs = <<>> THEN 0 ELSE CidrSize(Head(cidrs)) + SumSizes(Tail(cidrs))

(***************************************************************************)
(* C1: every subnet of every VpcAndSubnetCIDR the planner assembles lies   *)
(* inside the VPC's CIDR and shares no address with any other subnet of    *)
(* the same VPC.                                                           *)
(***************************************************************************)
C1_SubnetsContainedAndDisjoint ==
    \A k \in DOMAIN vpcConfig :
        LET v == vpcConfig[k] IN
        \A p \in SubnetKeys(v) :
            LET a == v.config[p[1]][p[2]] IN
            /\ CidrFirst(v.vpcCIDR) <= CidrFirst(a)
            /\ CidrLast(a) <= CidrLast(v.vpcCIDR)
            /\ \A q \in SubnetKeys(v) \ {p} :
                  LET b == v.config[q[1]][q[2]] IN
                  CidrLast(a) < CidrFirst(b) \/ CidrLast(b) < CidrFirst(a)

C1_Witness ==
    /\ pc = "done"
    /\ Len(args.availabilityZoneIndexes) = 3
    /\ DOMAIN Plan = {"DATABRICKS_VPC", "HUB_VPC"}
    /\ DOMAIN Plan["HUB_VPC"].config =
          {"VPCENDPOINTS", "TRANSITGATEWAY", "NETWORKFIREWALL", "NATGATEWAY"}
    /\ Len(Plan["HUB_VPC"].config["NATGATEWAY"]) = 3

(***************************************************************************)
(* C2: in each VPC the subnets, taken in the role order Clusters,          *)
(* TransitGateway (workload VPC), VpcEndpoints, TransitGateway (hub VPC),  *)
(* NetworkFirewall, NatGateway and in list order within a role, tile the   *)
(* address space from the VPC's network address on without a gap.          *)
(***************************************************************************)
C2_ContiguousRoleOrder ==
    \A k \in DOMAIN vpcConfig :
        LET v == vpcConfig[k]
            carved == Concat(v, RoleOrder(v))
        IN /\ Len(carved) = Cardinality(SubnetKeys(v))
           /\ carved # <<>> => CidrFirst(carved[1]) = CidrFirst(v.vpcCIDR)
           /\ \A i \in 1..(Len(carved) - 1) :
                 CidrFirst(carved[i + 1]) = CidrLast(carved[i]) + 1

C2_Witness ==
    /\ pc = "done"
    /\ opts.vpcArchitecture = "SINGLE_VPC"
    /\ DOMAIN Plan["DATABRICKS_VPC"].config =
          {"CLUSTERS", "VPCENDPOINTS", "NETWORKFIREWALL", "NATGATEWAY"}
    /\ Plan["DATABRICKS_VPC"].config["VPCENDPOINTS"][1].prefix
          # Plan["DATABRICKS_VPC"].config["CLUSTERS"][1].prefix

(***************************************************************************)
(* C3: for every positive host count the calculator returns the bit count  *)
(* of the smallest power-of-two block holding hostCount + 5 addresses:     *)
(* 2^bits >= hostCount + 5 and no smaller power of two is.                 *)
(***************************************************************************)
C3_SmallestBlock ==
    \A i \in DOMAIN bit_lengths :
        /\ pow2(bit_lengths[i]) >= num_ips[i] + 5
        /\ bit_lengths[i] > 0 => pow2(bit_lengths[i] - 1) < num_ips[i] + 5

(***************************************************************************)
(* C4: the prefix length 32 - bits never grows with the host count: for    *)
(* host counts a <= b the prefix computed for b is at most that for a.     *)
(***************************************************************************)
C4_PrefixMonotone ==
    (Len(bit_lengths) = 2 /\ num_ips[1] <= num_ips[2])
        => 32 - bit_lengths[2] <= 32 - bit_lengths[1]

C4_Witness ==
    /\ Len(bit_lengths) = 2
    /\ num_ips[1] < num_ips[2]
    /\ 32 - bit_lengths[2] < 32 - bit_lengths[1]

(***************************************************************************)
(* C5: in every plan returned, each VPC's CIDR starts at the supplied      *)
(* starting address and is the smallest power-of-two block that holds the  *)
(* total address space of the VPC's subnets.                               *)
(***************************************************************************)
C5_SmallestVpcBlock ==
    \A k \in DOMAIN Plan :
        LET v == Plan[k]
            total == SumSizes(Concat(v, RoleOrder(v)))
        IN /\ v.vpcCIDR.addr = (IF k = "HUB_VPC" THEN args.hubVpcStartingAddress
                                ELSE args.vpcCidrStartingAddress)
           /\ CidrSize(v.vpcCIDR) >= total
           /\ CidrSize(v.vpcCIDR) \div 2 < total

(***************************************************************************)
(* C6: fewer than 2 zone indexes, a duplicate zone index or fewer than 10  *)
(* nodes per subnet: the planner never gets past the checks, carves        *)
(* nothing, and when it stops it has raised the matching error.            *)
(***************************************************************************)
C6_DegenerateRejected ==
    Degenerate =>
        /\ pc \in {"new", "parameters", "raised"}
        /\ vpc_network = None /\ subnetsFor = <<>> /\ vpcConfig = <<>>
        /\ Finished => (Failed /\ err \in ZonesMessages \cup {NodesMessage})

C6_Witness ==
    /\ args.availabilityZoneIndexes = <<0, 0>>
    /\ opts.vpcArchitecture = "HUB_AND_SPOKE"
    /\ pc = "raised"
    /\ err = "There should be no duplicates in the availability zones specified"

(***************************************************************************)
(* C7: with data exfiltration protection activated and internet access     *)
(* disabled the planner, once stopped, has raised and returns no plan, in   *)
(* both architectures and for both private link settings; in single VPC     *)
(* mode with sound zones and nodes the error is the exfiltration error.     *)
(***************************************************************************)
C7_ExfiltrationNeedsInternet ==
    (opts.dataExfiltrationProtection = "ACTIVATED" /\ opts.internetAccess = "DISABLED")
        => /\ pc # "done"
           /\ Finished => Failed
           /\ (Finished /\ opts.vpcArchitecture = "SINGLE_VPC" /\ ~Degenerate)
                 => err = ExfiltrationMessage

C7_Witness ==
    /\ opts.dataExfiltrationProtection = "ACTIVATED"
    /\ opts.internetAccess = "DISABLED"
    /\ opts.vpcArchitecture = "HUB_AND_SPOKE"
    /\ opts.privateLinkEndpoints = "ENABLED"
    /\ pc = "raised"
    /\ err = ExfiltrationMessage

(***************************************************************************)
(* C8: hub and spoke without a hub starting address always ends in an      *)
(* error and no plan, and the hub VPC is never sized: the error is the      *)
(* missing-address error unless a zone, node or workload address error      *)
(* came first. In single VPC mode the missing-address error never occurs.   *)
(***************************************************************************)
C8_HubNeedsStartingAddress ==
    /\ (opts.vpcArchitecture = "HUB_AND_SPOKE" /\ args.hubVpcStartingAddress = None)
          => /\ pc # "done"
             /\ Finished => (Failed /\ err \in ZonesMessages
                                         \cup {NodesMessage, "ValueError", HubAddressMessage})
    /\ opts.vpcArchitecture = "SINGLE_VPC" => err # HubAddressMessage
    /\ (opts.vpcArchitecture = "SINGLE_VPC" /\ args.hubVpcStartingAddress = None
        /\ pc = "raised")
          => err \in ZonesMessages \cup {NodesMessage, "ValueError", ExfiltrationMessage}

C8_Witness ==
    /\ opts.vpcArchitecture = "HUB_AND_SPOKE"
    /\ args.hubVpcStartingAddress = None
    /\ opts.privateLinkEndpoints = "DISABLED"
    /\ opts.internetAccess = "DISABLED"
    /\ pc = "raised"
    /\ err = HubAddressMessage

(***************************************************************************)
(* C9: hub and spoke with private link disabled and internet access         *)
(* disabled always ends in an error and no plan; in single VPC mode the     *)
(* same two settings never raise the no-route error, and a plan returned    *)
(* holds the cluster subnets only.                                          *)
(***************************************************************************)
C9_HubNeedsRoute ==
    (opts.privateLinkEndpoints = "DISABLED" /\ opts.internetAccess = "DISABLED")
        => /\ opts.vpcArchitecture = "HUB_AND_SPOKE"
                 => (pc # "done" /\ (Finished => Failed))
           /\ opts.vpcArchitecture = "SINGLE_VPC"
                 => /\ err # NoRouteMessage
                    /\ (pc = "raised" /\ opts.dataExfiltrationProtection = "DEACTIVATED")
                          => err \in ZonesMessages \cup {NodesMessage, "ValueError"}
                    /\ pc = "done"
                          => /\ DOMAIN Plan = {"DATABRICKS_VPC"}
                             /\ DOMAIN Plan["DATABRICKS_VPC"].config = {"CLUSTERS"}
                             /\ Len(Plan["DATABRICKS_VPC"].config["CLUSTERS"])
                                   = Len(args.availabilityZoneIndexes)

C9_Witness ==
    /\ opts.privateLinkEndpoints = "DISABLED"
    /\ opts.internetAccess = "DISABLED"
    /\ opts.vpcArchitecture = "HUB_AND_SPOKE"
    /\ args.hubVpcStartingAddress # None
    /\ pc = "raised"
    /\ err = NoRouteMessage

(***************************************************************************)
(* C10: when a configuration error is raised, no VPC CIDR has been          *)
(* computed and no subnet has been carved.                                  *)
(***************************************************************************)
C10_ErrorsBeforeAllocation ==
    err \in ConfigurationErrors
        => (vpc_network = None /\ subnetsFor = <<>> /\ vpcConfig = <<>>)

\* number of subnets a VPC of the plan holds for a role (0 when the role is absent)
Count(v, t) == IF t \in DOMAIN v.config THEN Len(v.config[t]) ELSE 0

(***************************************************************************)
(* C11: a single VPC plan over n zones holds one VPC with n cluster        *)
(* subnets, n endpoint subnets exactly when private link is enabled, NAT   *)
(* subnets exactly when internet access is not disabled, firewall subnets  *)
(* exactly when data exfiltration protection is activated, and no transit  *)
(* gateway role; the example (1000 nodes, 2 zones, high availability,      *)
(* private link, no firewall) gives 2, 2, 2 and none.                      *)
(***************************************************************************)
C11_SingleVpcRoles ==
    (pc = "done" /\ opts.vpcArchitecture = "SINGLE_VPC")
        => /\ DOMAIN Plan = {"DATABRICKS_VPC"}
           /\ LET v == Plan["DATABRICKS_VPC"]
                  n == Len(args.availabilityZoneIndexes)
              IN /\ Count(v, "CLUSTERS") = n
                 /\ "VPCENDPOINTS" \in DOMAIN v.config <=> opts.privateLinkEndpoints = "ENABLED"
                 /\ Count(v, "VPCENDPOINTS") \in {0, n}
                 /\ "NATGATEWAY" \in DOMAIN v.config <=> opts.internetAccess # "DISABLED"
                 /\ "NETWORKFIREWALL" \in DOMAIN v.config
                       <=> opts.dataExfiltrationProtection = "ACTIVATED"
                 /\ \A t \in DOMAIN v.config : Len(v.config[t]) > 0
                 /\ "TRANSITGATEWAY" \notin DOMAIN v.config

C11_Witness ==
    /\ pc = "done"
    /\ opts = [internetAccess |-> "HIGH_AVAILABILITY", privateLinkEndpoints |-> "ENABLED",
               vpcArchitecture |-> "SINGLE_VPC", dataExfiltrationProtection |-> "DEACTIVATED"]
    /\ args.maxRunningNodesPerSubnet = ExampleNodes
    /\ args.vpcCidrStartingAddress = <<10, 10, 0, 0>>
    /\ Len(args.availabilityZoneIndexes) = 2
    /\ Count(Plan["DATABRICKS_VPC"], "CLUSTERS") = 2
    /\ Count(Plan["DATABRICKS_VPC"], "VPCENDPOINTS") = 2
    /\ Count(Plan["DATABRICKS_VPC"], "NATGATEWAY") = 2
    /\ Count(Plan["DATABRICKS_VPC"], "NETWORKFIREWALL") = 0

(***************************************************************************)
(* C12: in every plan, in both architectures: with STANDARD internet       *)
(* access there is exactly one NAT subnet and, if the firewall is          *)
(* activated, exactly one firewall subnet; with HIGH_AVAILABILITY there is *)
(* one of each per zone; cluster, endpoint and transit gateway roles hold  *)
(* one subnet per zone wherever they are present.                          *)
(***************************************************************************)
C12_SingleAzCollapse ==
    pc = "done" =>
        LET n == Len(args.availabilityZoneIndexes)
            egress == Plan[IF opts.vpcArchitecture = "SINGLE_VPC" THEN "DATABRICKS_VPC"
                           ELSE "HUB_VPC"]
            firewall == opts.dataExfiltrationProtection = "ACTIVATED"
        IN /\ opts.internetAccess = "STANDARD"
                 => /\ Count(egress, "NATGATEWAY") = 1
                    /\ Count(egress, "NETWORKFIREWALL") = (IF firewall THEN 1 ELSE 0)
           /\ opts.internetAccess = "HIGH_AVAILABILITY"
                 => /\ Count(egress, "NATGATEWAY") = n
                    /\ Count(egress, "NETWORKFIREWALL") = (IF firewall THEN n ELSE 0)
           /\ \A k \in DOMAIN Plan :
                 \A t \in DOMAIN Plan[k].config \cap {"CLUSTERS", "VPCENDPOINTS", "TRANSITGATEWAY"} :
                     Count(Plan[k], t) = n

C12_Witness ==
    /\ pc = "done"
    /\ opts.vpcArchitecture = "HUB_AND_SPOKE"
    /\ opts.internetAccess = "STANDARD"
    /\ opts.dataExfiltrationProtection = "ACTIVATED"
    /\ Len(args.availabilityZoneIndexes) = 3
    /\ Count(Plan["HUB_VPC"], "NATGATEWAY") = 1
    /\ Count(Plan["HUB_VPC"], "NETWORKFIREWALL") = 1
    /\ Count(Plan["DATABRICKS_VPC"], "TRANSITGATEWAY") = 3

(***************************************************************************)
(* C13: the plan has the one entry DATABRICKS_VPC in single VPC mode and   *)
(* the two entries DATABRICKS_VPC and HUB_VPC in hub and spoke; there the  *)
(* workload VPC holds exactly the cluster and transit gateway roles, one   *)
(* subnet per zone each, and the hub VPC holds the transit gateway role    *)
(* and otherwise only endpoint, firewall and NAT roles, never clusters.    *)
(***************************************************************************)
C13_PlanEntries ==
    pc = "done" =>
        IF opts.vpcArchitecture = "SINGLE_VPC"
        THEN DOMAIN Plan = {"DATABRICKS_VPC"}
        ELSE /\ DOMAIN Plan = {"DATABRICKS_VPC", "HUB_VPC"}
             /\ Plan["DATABRICKS_VPC"].vpcType = "DATABRICKS_VPC"
             /\ Plan["HUB_VPC"].vpcType = "HUB_VPC"
             /\ DOMAIN Plan["DATABRICKS_VPC"].config = {"CLUSTERS", "TRANSITGATEWAY"}
             /\ Count(Plan["DATABRICKS_VPC"], "CLUSTERS") = Len(args.availabilityZoneIndexes)
             /\ Count(Plan["DATABRICKS_VPC"], "TRANSITGATEWAY") = Len(args.availabilityZoneIndexes)
             /\ "CLUSTERS" \notin DOMAIN Plan["HUB_VPC"].config
             /\ "TRANSITGATEWAY" \in DOMAIN Plan["HUB_VPC"].config
             /\ DOMAIN Plan["HUB_VPC"].config
                   \subseteq {"VPCENDPOINTS", "NETWORKFIREWALL", "NATGATEWAY", "TRANSITGATEWAY"}

C13_Witness ==
    /\ pc = "done"
    /\ opts.vpcArchitecture = "HUB_AND_SPOKE"
    /\ DOMAIN Plan["HUB_VPC"].config = {"VPCENDPOINTS", "TRANSITGATEWAY"}
    /\ DOMAIN Plan["DATABRICKS_VPC"].config = {"CLUSTERS", "TRANSITGATEWAY"}

\* every subnet of role t lies wholly below every subnet of role u in VPC v
Below(v, t, u) ==
    \A i \in 1..Count(v, t), j \in 1..Count(v, u) :
        CidrLast(v.config[t][i]) < CidrFirst(v.config[u][j])

(***************************************************************************)
(* C14 as stated: in the hub VPC the transit gateway subnets come first,   *)
(* then the endpoint, firewall and NAT subnets, in increasing addresses.   *)
(***************************************************************************)
C14_HubTransitFirst ==
    (pc = "done" /\ opts.vpcArchitecture = "HUB_AND_SPOKE")
        => LET v == Plan["HUB_VPC"] IN
           /\ Below(v, "TRANSITGATEWAY", "VPCENDPOINTS")
           /\ Below(v, "VPCENDPOINTS", "NETWORKFIREWALL")
           /\ Below(v, "TRANSITGATEWAY", "NETWORKFIREWALL")
           /\ Below(v, "NETWORKFIREWALL", "NATGATEWAY")
           /\ Below(v, "VPCENDPOINTS", "NATGATEWAY")
           /\ Below(v, "TRANSITGATEWAY", "NATGATEWAY")

(***************************************************************************)
(* C14 amended: in the hub VPC the endpoint subnets come first, then the   *)
(* transit gateway, firewall and NAT subnets, in increasing addresses; so  *)
(* with private link enabled every hub endpoint subnet lies below every    *)
(* hub transit gateway subnet.                                             *)
(***************************************************************************)
C14_HubEndpointsFirst ==
    (pc = "done" /\ opts.vpcArchitecture = "HUB_AND_SPOKE")
        => LET v == Plan["HUB_VPC"] IN
           /\ Below(v, "VPCENDPOINTS", "TRANSITGATEWAY")
           /\ Below(v, "TRANSITGATEWAY", "NETWORKFIREWALL")
           /\ Below(v, "VPCENDPOINTS", "NETWORKFIREWALL")
           /\ Below(v, "NETWORKFIREWALL", "NATGATEWAY")
           /\ Below(v, "TRANSITGATEWAY", "NATGATEWAY")
           /\ Below(v, "VPCENDPOINTS", "NATGATEWAY")
           /\ opts.privateLinkEndpoints = "ENABLED"
                 => CidrFirst(v.config["VPCENDPOINTS"][1]) = CidrFirst(v.vpcCIDR)

C14_Witness ==
    /\ pc = "done"
    /\ opts.vpcArchitecture = "HUB_AND_SPOKE"
    /\ DOMAIN Plan["HUB_VPC"].config =
          {"VPCENDPOINTS", "TRANSITGATEWAY", "NETWORKFIREWALL", "NATGATEWAY"}
    /\ Len(args.availabilityZoneIndexes) = 2
    /\ opts.internetAccess = "HIGH_AVAILABILITY"

(***************************************************************************)
(* Vocabulary of the claims about the graph builder.                       *)
(***************************************************************************)
\* the resources of the template a build has returned
FinishedResources ==
    IF build_pc = "returned" THEN cloudFormationTemplate.Resources ELSE <<>>

LogicalIds(resources) == {resources[i].id : i \in DOMAIN resources}

RECURSIVE Flatten(_)
Flatten(statements) ==
    IF statements = <<>> THEN <<>> ELSE Head(statements) \o Flatten(Tail(statements))

\* the values kept of the properties of a resource
ValuesOf(r) ==
    UNION {LET values == IF property = "KeyPolicy" THEN Flatten(r.Properties[property])
                         ELSE r.Properties[property]
           IN {values[i] : i \in DOMAIN values} : property \in DOMAIN r.Properties}

\* the resources of ids a resource names with Ref, Fn::GetAtt or a variable of Fn::Sub
ReferencesOf(r, ids) ==
    {v.to : v \in {w \in ValuesOf(r) : w.fn \in {"Ref", "Fn::GetAtt", "Fn::Sub"}}} \cap ids

DependsOnOf(r) == {r.DependsOn[i] : i \in DOMAIN r.DependsOn}

\* per logical id, what its resource lists in DependsOn
DependsOnEdges(resources) ==
    [id \in LogicalIds(resources) |->
        DependsOnOf(resources[CHOOSE i \in DOMAIN resources : resources[i].id = id])]

\* per logical id, what CloudFormation creates before it: the resources it lists in
\* DependsOn and the resources it references
OrderEdges(resources) ==
    [id \in LogicalIds(resources) |->
        LET r == resources[CHOOSE i \in DOMAIN resources : resources[i].id = id]
        IN DependsOnOf(r) \cup (ReferencesOf(r, LogicalIds(resources)) \ {id})]

RECURSIVE Reachable(_, _, _)
\* seen and what one or more edges lead to from the frontier
Reachable(edges, frontier, seen) ==
    LET next == UNION {edges[id] : id \in frontier \cap DOMAIN edges} \ seen
    IN IF next = {} THEN seen ELSE Reachable(edges, next, seen \cup next)

RECURSIVE Unprovisioned(_, _)
\* what is left of waiting when, round after round, every resource that has nothing
\* left to wait for is created
Unprovisioned(edges, waiting) ==
    LET ready == {id \in waiting : edges[id] \cap waiting = {}}
    IN IF ready = {} THEN waiting ELSE Unprovisioned(edges, waiting \ ready)

C16_ErrorsBeforeResources ==
    build_pc = "raised"
        => /\ cloudFormationTemplate.Resources = <<>>
           /\ requiredPrivileges = {}
           /\ requiredPrivilegesForRollback = {}

\* KeyPolicy.Statement of the EncryptionKey of a returned template, <<>> without key
KeyPolicyOf(resources) ==
    IF "EncryptionKey" \in LogicalIds(resources)
    THEN resources[CHOOSE i \in DOMAIN resources :
                       resources[i].id = "EncryptionKey"].Properties.KeyPolicy
    ELSE <<>>

\* the statements the claim names for a usage
Fragments(usage) ==
    IF usage = "BOTH"
    THEN managedServicesPolicyStatement("DatabricksAccountId")
         \o workspaceStoragePolicyStatement("DatabricksAccountId", "WorkspaceIamRole")
    ELSE IF usage = "MANAGED_SERVICES"
    THEN managedServicesPolicyStatement("DatabricksAccountId")
    ELSE workspaceStoragePolicyStatement("DatabricksAccountId", "WorkspaceIamRole")

(***************************************************************************)
(* C17 (as stated): with Both the statements of the key policy are exactly *)
(* the managed services fragment followed by the storage fragment, with    *)
(* nothing else; with ManagedServices or Storage alone, exactly that       *)
(* fragment.                                                               *)
(***************************************************************************)
C17_FragmentsOnly ==
    (build_pc = "returned" /\ customerManagedKeysOptions.usage # "NONE")
        => KeyPolicyOf(FinishedResources) = Fragments(customerManagedKeysOptions.usage)

(***************************************************************************)
(* C17 (amended): the statements of the key policy are the statement that  *)
(* gives the owner account its permissions, followed by exactly the        *)
(* fragment of the usage: managed services then storage with Both.         *)
(***************************************************************************)
C17_OwnerThenFragments ==
    (build_pc = "returned" /\ customerManagedKeysOptions.usage # "NONE")
        => LET statements == KeyPolicyOf(FinishedResources) IN
           /\ statements # <<>>
           /\ Head(statements) = <<Sid("Enable Owner Account Permissions")>>
           /\ Tail(statements) = Fragments(customerManagedKeysOptions.usage)

\* a returned template with a key for both usages: five statements, the managed
\* services one second and the EBS one last
C17_Witness ==
    /\ build_pc = "returned"
    /\ customerManagedKeysOptions.usage = "BOTH"
    /\ LET statements == KeyPolicyOf(FinishedResources) IN
       /\ Len(statements) = 5
       /\ statements[2][2] = Ref("DatabricksAccountId")
       /\ statements[5][2] = GetAtt("WorkspaceIamRole", "Arn")

(***************************************************************************)
(* C18: two builds with the same inputs, on the same builder or on two     *)
(* builders, return the same sorted create-time and rollback-time lists;   *)
(* the second build starts from empty sets.                                *)
(***************************************************************************)
C18_SameLists ==
    /\ Len(returned) = 2 => returned[1] = returned[2]
    /\ build_pc = "storage"
           => requiredPrivileges = {} /\ requiredPrivilegesForRollback = {}

\* the second build on the same builder has returned, with capabilities in both lists
C18_Witness ==
    /\ Len(returned) = 2
    /\ builders = 1
    /\ returned[2].Statement[1].Action # <<>>
    /\ returned[2].Statement[2].Action # <<>>

\* each element of l before a greater one, in the order of str
Ascending(l) == \A k \in 1..(Len(l) - 1) : rank[l[k]] < rank[l[k + 1]]

Members(l) == {l[k] : k \in DOMAIN l}

(***************************************************************************)
(* C19: the policy document returned has exactly two statements,           *)
(* RequiredForCreation then RequiredForRollback, and the Action list of    *)
(* each is the strictly ascending enumeration of exactly the capabilities  *)
(* of the corresponding privilege set.                                     *)
(***************************************************************************)
C19_PolicyDocument ==
    build_pc = "returned"
        => LET statements == returned[Len(returned)].Statement
           IN /\ Len(statements) = 2
              /\ statements[1].Sid = "RequiredForCreation"
              /\ statements[2].Sid = "RequiredForRollback"
              /\ Ascending(statements[1].Action)
              /\ Ascending(statements[2].Action)
              /\ Members(statements[1].Action) = requiredPrivileges
              /\ Members(statements[2].Action) = requiredPrivilegesForRollback

\* a document of a hub-and-spoke build with a key: long lists that start with the
\* capabilities of the first services in the order of str
C19_Witness ==
    /\ build_pc = "returned"
    /\ opts.vpcArchitecture = "HUB_AND_SPOKE"
    /\ customerManagedKeysOptions.usage = "BOTH"
    /\ Len(returned[1].Statement[1].Action) > 40
    /\ Len(returned[1].Statement[2].Action) > 20
    /\ returned[1].Statement[1].Action[1] = "ec2:AllocateAddress"
    /\ returned[1].Statement[2].Action[1] = "ec2:DeleteInternetGateway"

\* a step taken while the build is adding resources leaves supersets
GrowingStep ==
    build_pc \in {"storage", "networking", "planning", "identity", "encryption"}
        => /\ requiredPrivileges \subseteq requiredPrivileges'
           /\ requiredPrivilegesForRollback \subseteq requiredPrivilegesForRollback'
           /\ LogicalIds(cloudFormationTemplate.Resources)
                  \subseteq LogicalIds(cloudFormationTemplate'.Resources)

(***************************************************************************)
(* C20: across the steps that add resources (storage, networking,          *)
(* identity, encryption) the two privilege sets only grow, and no          *)
(* declared resource is lost.                                              *)
(***************************************************************************)
C20_SetsOnlyGrow ==
    [][GrowingStep]_vars

\* after the encryption step: the sets hold the capabilities of all four steps and
\* the template the resources of all four
C20_Witness ==
    /\ build_pc = "generate"
    /\ {"s3:CreateBucket", "ec2:CreateVpc", "iam:CreateRole", "kms:CreateKey"}
           \subseteq requiredPrivileges
    /\ {"s3:DeleteBucket", "ec2:DeleteVpc", "iam:DeleteRole", "kms:DisableKey"}
           \subseteq requiredPrivilegesForRollback
    /\ {"DBFSRootBucket", "DBSVpc", "WorkspaceIamRole", "EncryptionKey"}
           \subseteq LogicalIds(cloudFormationTemplate.Resources)

(***************************************************************************)
(* Further claims about the planner.                                       *)
(***************************************************************************)
\* the host count the subnets of a role are sized for
HostsOf(role) ==
    CASE role = "CLUSTERS" -> 2 * args.maxRunningNodesPerSubnet
      [] role = "VPCENDPOINTS" ->
             IF args.maxVpcEndpointsPerSubnet > 10 THEN args.maxVpcEndpointsPerSubnet ELSE 10
      [] OTHER -> 10

(***************************************************************************)
(* C21: every subnet of a plan has the block size the calculator returns   *)
(* for the host count of its role: twice the nodes for clusters, the       *)
(* endpoints asked for but at least 10 for endpoints, 10 for firewall, NAT *)
(* and transit gateway, whatever the zone and the VPC.                     *)
(***************************************************************************)
C21_BlockSizes ==
    \A v \in DOMAIN Plan :
        \A role \in DOMAIN Plan[v].config :
            \A i \in DOMAIN Plan[v].config[role] :
                Plan[v].config[role][i].prefix = 32 - subnetBitLength(HostsOf(role))

\* a hub and spoke plan with 60 endpoints per subnet and 10 nodes: endpoint blocks
\* of 128 addresses, cluster blocks of 32, NAT and transit gateway blocks of 16
C21_Witness ==
    /\ pc = "done"
    /\ opts.vpcArchitecture = "HUB_AND_SPOKE"
    /\ args.maxVpcEndpointsPerSubnet = 60
    /\ args.maxRunningNodesPerSubnet = 10
    /\ Plan["HUB_VPC"].config["VPCENDPOINTS"][1].prefix = 25
    /\ Plan["HUB_VPC"].config["NATGATEWAY"][1].prefix = 28
    /\ Plan["HUB_VPC"].config["TRANSITGATEWAY"][2].prefix = 28
    /\ Plan["DATABRICKS_VPC"].config["CLUSTERS"][2].prefix = 27
    /\ Plan["DATABRICKS_VPC"].config["TRANSITGATEWAY"][1].prefix = 28

\* parameters both constructors accept, with starting addresses x.y.0.0
ValidParameters ==
    /\ ~TooFewZones(args.availabilityZoneIndexes)
    /\ ~DuplicateZones(args.availabilityZoneIndexes)
    /\ ~TooFewNodes(args.maxRunningNodesPerSubnet)
    /\ args.vpcCidrStartingAddress[3] = 0 /\ args.vpcCidrStartingAddress[4] = 0
    /\ args.hubVpcStartingAddress # None
           => args.hubVpcStartingAddress[3] = 0 /\ args.hubVpcStartingAddress[4] = 0

\* the size of the block the carving loop at the current position carves, 0 at a
\* position that carves nothing
CarvedHere ==
    CASE pc \in {"single_vm", "workload_vm"} -> sizes.vm
      [] pc \in {"single_ep", "hub_ep"} /\ HasEndpoints -> sizes.endpoint
      [] pc \in {"single_fw", "hub_fw"} /\ HasFirewall -> sizes.firewall
      [] pc \in {"single_nat", "hub_nat"} /\ HasInternet -> sizes.nat_gateway
      [] pc \in {"workload_tgw", "hub_tgw"} -> sizes.transit_gateway
      [] OTHER -> 0

(***************************************************************************)
(* C25: for valid parameters every carving loop starts at a multiple of    *)
(* the block size it carves, also when the endpoint block is larger than   *)
(* the cluster block, and the planner never ends in the ValueError of a    *)
(* malformed CIDR.                                                         *)
(***************************************************************************)
C25_CarvesAligned ==
    ValidParameters
        => /\ startingIP % pow2(CarvedHere) = 0
           /\ err # "ValueError"

(***************************************************************************)
(* Further vocabulary of the claims about the graph builder.               *)
(***************************************************************************)
\* the resource with a logical id
ResourceOf(resources, id) == resources[CHOOSE i \in DOMAIN resources : resources[i].id = id]

\* the logical ids of the resources of a type
IdsOfType(resources, type) ==
    {resources[i].id : i \in {k \in DOMAIN resources : resources[k].Type = type}}

\* the routes of VPC route tables
Routes(resources) ==
    {resources[i] : i \in {k \in DOMAIN resources : resources[k].Type = "AWS::EC2::Route"}}

\* the NAT gateways a route names, and the positions of the firewall endpoints it names
NatGatewaysOf(route) ==
    ReferencesOf(route, {Name("NatGateway", z, "") : z \in 1..Len(args.availabilityZoneIndexes)})

FirewallEndpointsOf(route) ==
    {v.select : v \in {w \in ValuesOf(route) : w.to = "NetworkFirewall"}}

\* the zones of the invocation
Zones == 1..Len(args.availabilityZoneIndexes)

(***************************************************************************)
(* C22: with HIGH_AVAILABILITY the graph has one NAT gateway with its      *)
(* elastic IP per zone; with STANDARD it has exactly one NAT gateway, one  *)
(* elastic IP and (with a firewall) one firewall subnet mapping, and every *)
(* route that names a NAT gateway or a firewall endpoint names the first   *)
(* zone's; with DISABLED it has no NAT gateway, elastic IP or internet     *)
(* gateway.                                                                *)
(***************************************************************************)
C22_SingleAzCollapseInGraph ==
    build_pc = "returned" =>
        LET resources == FinishedResources
            nat == IdsOfType(resources, "AWS::EC2::NatGateway")
            eip == IdsOfType(resources, "AWS::EC2::EIP")
            igw == IdsOfType(resources, "AWS::EC2::InternetGateway")
            firewall == IdsOfType(resources, "AWS::NetworkFirewall::Firewall")
        IN /\ opts.internetAccess = "HIGH_AVAILABILITY"
                 => /\ nat = {Name("NatGateway", z, "") : z \in Zones}
                    /\ eip = {Name("ElasticIPForNat", z, "") : z \in Zones}
                    /\ \A z \in Zones :
                          ResourceOf(resources, Name("NatGateway", z, "")).Properties.AllocationId
                              = <<GetAtt(Name("ElasticIPForNat", z, ""), "AllocationId")>>
           /\ opts.internetAccess = "STANDARD"
                 => /\ nat = {"NatGateway1"}
                    /\ eip = {"ElasticIPForNat1"}
                    /\ \A f \in firewall :
                          ResourceOf(resources, f).Properties.SubnetMappings
                              = <<Ref("FirewallSubnet1")>>
                    /\ \A route \in Routes(resources) :
                          /\ NatGatewaysOf(route) \subseteq {"NatGateway1"}
                          /\ FirewallEndpointsOf(route) \subseteq {0}
           /\ opts.internetAccess = "DISABLED"
                 => nat = {} /\ eip = {} /\ igw = {}

\* STANDARD with a firewall and three zones: one NAT gateway, and the default route of
\* the third zone's cluster subnet goes to the firewall endpoint of the first zone
C22_Witness ==
    /\ build_pc = "returned"
    /\ opts.internetAccess = "STANDARD"
    /\ opts.vpcArchitecture = "SINGLE_VPC"
    /\ opts.dataExfiltrationProtection = "ACTIVATED"
    /\ Len(args.availabilityZoneIndexes) = 3
    /\ IdsOfType(FinishedResources, "AWS::EC2::NatGateway") = {"NatGateway1"}
    /\ FirewallEndpointsOf(ResourceOf(FinishedResources,
                                      "RouteToInternetInDBSClusterSubnetRouteTable3")) = {0}
    /\ NatGatewaysOf(ResourceOf(FinishedResources, "RouteToInternetInFirewallRouteTable1"))
           = {"NatGateway1"}

\* the properties of a route that name its next hop
TargetsOf(route) == DOMAIN route.Properties \ {"RouteTableId", "DestinationCidrBlock"}

\* the routes to 0.0.0.0/0 of a route table
DefaultRoutesIn(resources, routeTable) ==
    {route \in Routes(resources) :
        /\ route.Properties.RouteTableId = <<Ref(routeTable)>>
        /\ route.Properties.DestinationCidrBlock = <<Literal("0.0.0.0/0")>>}

\* the next hop the decision table gives the cluster subnets of zone z: the property
\* and its value, <<>> for no default route
ClusterNextHop(z) ==
    LET own == IF opts.internetAccess = "STANDARD" THEN 1 ELSE z IN
    IF opts.vpcArchitecture = "HUB_AND_SPOKE"
    THEN <<"TransitGatewayId", Ref("TransitGateway")>>
    ELSE IF opts.internetAccess = "DISABLED" THEN <<>>
    ELSE IF opts.dataExfiltrationProtection = "ACTIVATED"
    THEN <<"VpcEndpointId", [GetAtt("NetworkFirewall", "EndpointIds") EXCEPT !.select = own - 1]>>
    ELSE <<"GatewayId", Ref(Name("NatGateway", own, ""))>>

(***************************************************************************)
(* C23: the default route of the cluster subnets of each zone goes to the  *)
(* transit gateway in hub and spoke mode; otherwise to the firewall        *)
(* endpoint if there is a firewall and to the NAT gateway if there is      *)
(* none, of the zone itself with HIGH_AVAILABILITY and of the first zone   *)
(* with STANDARD; a single VPC without internet access has no default      *)
(* route. Every route of the graph has exactly one next hop.               *)
(***************************************************************************)
C23_ClusterDefaultRoute ==
    build_pc = "returned" =>
        LET resources == FinishedResources IN
        /\ \A z \in Zones :
              LET emitted == DefaultRoutesIn(resources, Name("DBSClusterSubnetRouteTable", z, ""))
                  hop == ClusterNextHop(z)
              IN IF hop = <<>> THEN emitted = {}
                 ELSE /\ Cardinality(emitted) = 1
                      /\ \A route \in emitted :
                            /\ TargetsOf(route) = {hop[1]}
                            /\ route.Properties[hop[1]] = <<hop[2]>>
        /\ \A route \in Routes(resources) : Cardinality(TargetsOf(route)) = 1

\* HIGH_AVAILABILITY in a single VPC without firewall, three zones: the third zone's
\* cluster subnets leave through the third NAT gateway
C23_Witness ==
    /\ build_pc = "returned"
    /\ opts.vpcArchitecture = "SINGLE_VPC"
    /\ opts.internetAccess = "HIGH_AVAILABILITY"
    /\ opts.dataExfiltrationProtection = "DEACTIVATED"
    /\ Len(args.availabilityZoneIndexes) = 3
    /\ ResourceOf(FinishedResources, "RouteToInternetInDBSClusterSubnetRouteTable3")
           .Properties.GatewayId = <<Ref("NatGateway3")>>

\* the transit gateway attachments of the VPC that owns the route table of a route
AttachmentsOfOwner(resources, route) ==
    LET routeTable == ResourceOf(resources, route.Properties.RouteTableId[1].to) IN
    {id \in IdsOfType(resources, "AWS::EC2::TransitGatewayAttachment") :
        ResourceOf(resources, id).Properties.VpcId = routeTable.Properties.VpcId}

\* every route to the transit gateway lists in DependsOn the attachment of the VPC of
\* its route table
TransitRoutesWaitForAttachment(resources) ==
    \A route \in Routes(resources) :
        "TransitGatewayId" \in TargetsOf(route)
            => /\ AttachmentsOfOwner(resources, route) # {}
               /\ AttachmentsOfOwner(resources, route) \subseteq DependsOnOf(route)

Declared(template, section) ==
    IF section \notin DOMAIN template THEN {}
    ELSE IF section = "Mappings" THEN {template[section][i] : i \in DOMAIN template[section]}
    ELSE IF section = "Resources" THEN LogicalIds(template[section])
    ELSE {template[section][i].name : i \in DOMAIN template[section]}

\* the values of the template outside the Parameters section
ValuesIn(template) ==
    UNION {ValuesOf(template.Resources[i]) : i \in DOMAIN template.Resources}
    \cup UNION {{e.Value[k] : k \in DOMAIN e.Value} :
                   e \in {template.Conditions[i] : i \in DOMAIN template.Conditions}
                         \cup {template.Outputs[i] : i \in DOMAIN template.Outputs}}

\* the values of a template that name something the template does not declare
Dangling(template) ==
    LET parameters == Declared(template, "Parameters")
        resources == Declared(template, "Resources")
        mappings == Declared(template, "Mappings")
    IN {v \in ValuesIn(template) :
           \/ v.fn \in {"Ref", "Fn::Sub"} /\ v.to \notin parameters \cup resources
           \/ v.fn = "Fn::GetAtt" /\ v.to \notin resources
           \/ v.fn = "Fn::FindInMap" /\ v.to \notin mappings}

(***************************************************************************)
(* C26: in the template of every build that returns, every Ref, GetAtt     *)
(* and Fn::Sub variable names a declared parameter or resource, every      *)
(* mapping lookup a declared mapping and every DependsOn entry a declared  *)
(* resource; also in hub and spoke mode without private link.              *)
(***************************************************************************)
C26_ReferentialIntegrity ==
    build_pc = "returned" =>
        /\ Dangling(cloudFormationTemplate) = {}
        /\ \A i \in DOMAIN cloudFormationTemplate.Resources :
              DependsOnOf(cloudFormationTemplate.Resources[i])
                  \subseteq Declared(cloudFormationTemplate, "Resources")

\* the resources that must exist before the resource id can be created
Before(resources, id) == Reachable(OrderEdges(resources), {id}, {})

(***************************************************************************)
(* C27: in the graph of every build that returns, no resource comes        *)
(* before itself along DependsOn entries and references to resources; with *)
(* a key used for storage the storage credential role waits for the key    *)
(* and the key for the workspace role, and neither waits for the storage   *)
(* credential role.                                                        *)
(***************************************************************************)
C27_Acyclic ==
    build_pc = "returned" =>
        /\ \A id \in LogicalIds(FinishedResources) : id \notin Before(FinishedResources, id)
        /\ customerManagedKeysOptions.usage \in {"STORAGE", "BOTH"}
              => {"EncryptionKey", "WorkspaceIamRole"}
                     \subseteq Before(FinishedResources, "StorageCredentialIAMRole")

\* hub and spoke with a key for both uses: the chain of the key, and each propagation
\* waiting for the association of the other attachment
C27_Witness ==
    /\ build_pc = "returned"
    /\ customerManagedKeysOptions.usage = "BOTH"
    /\ opts.vpcArchitecture = "HUB_AND_SPOKE"
    /\ "EncryptionKey" \in OrderEdges(FinishedResources)["StorageCredentialIAMRole"]
    /\ "WorkspaceIamRole" \in OrderEdges(FinishedResources)["EncryptionKey"]
    /\ "TransitGatewayAttachmentForDBSVpcRouteTableAssociation"
           \in Before(FinishedResources, "TransitGatewayAttachmentForHubVpcRouteTablePropagation")
    /\ "TransitGatewayAttachmentForHubVpcRouteTableAssociation"
           \in Before(FinishedResources, "TransitGatewayAttachmentForDBSVpcRouteTablePropagation")


\* the property under which a resource names its route table: a VPC route table or a
\* route table of the transit gateway
TableProperty(r) ==
    IF r.Type \in {"AWS::EC2::Route", "AWS::EC2::SubnetRouteTableAssociation"}
    THEN "RouteTableId" ELSE "TransitGatewayRouteTableId"

TableOf(r) == r.Properties[TableProperty(r)][1].to

\* the logical ids of the routes declared in a route table
RoutesDeclaredIn(resources, table) ==
    {id \in IdsOfType(resources, "AWS::EC2::Route")
            \cup IdsOfType(resources, "AWS::EC2::TransitGatewayRoute") :
        TableOf(ResourceOf(resources, id)) = table}

\* the routes of its table an association of a type does not wait for
RoutesNotAwaited(resources, type) ==
    {<<association, route>> \in
        IdsOfType(resources, type) \X
            (IdsOfType(resources, "AWS::EC2::Route")
                \cup IdsOfType(resources, "AWS::EC2::TransitGatewayRoute")) :
        /\ route \in RoutesDeclaredIn(resources, TableOf(ResourceOf(resources, association)))
        /\ route \notin DependsOnOf(ResourceOf(resources, association))}

\* C28: every route-table association of a returned template, of a subnet or of a
\* transit-gateway attachment, lists in DependsOn every route declared in the route
\* table it associates
C28_AssociationsAwaitRoutes ==
    build_pc = "returned" =>
        /\ RoutesNotAwaited(FinishedResources, "AWS::EC2::SubnetRouteTableAssociation") = {}
        /\ RoutesNotAwaited(FinishedResources,
                            "AWS::EC2::TransitGatewayRouteTableAssociation") = {}


\* the transit-gateway route tables the associations of a transit-gateway attachment name
TablesAssociatedWith(resources, attachment) ==
    {TableOf(ResourceOf(resources, id)) :
        id \in {a \in IdsOfType(resources, "AWS::EC2::TransitGatewayRouteTableAssociation") :
            ResourceOf(resources, a).Properties.TransitGatewayAttachmentId
                = <<Ref(attachment)>>}}

\* the associations that name a transit-gateway route table
AssociationsOfTable(resources, table) ==
    {a \in IdsOfType(resources, "AWS::EC2::TransitGatewayRouteTableAssociation") :
        TableOf(ResourceOf(resources, a)) = table}

\* C29: in a returned hub-and-spoke template the attachment of the Databricks VPC is
\* associated with TransitGatewayRouteTableDbs and the attachment of the hub VPC with
\* TransitGatewayRouteTableHub, the static route to the Databricks VPC is declared in
\* TransitGatewayRouteTableHub, and no transit-gateway route table is named by two
\* associations
C29_OwnRouteTablePerAttachment ==
    (build_pc = "returned" /\ isHubNSpoke(opts)) =>
        /\ TablesAssociatedWith(FinishedResources, "DBSVpcTransitGatewayAttachment")
               = {"TransitGatewayRouteTableDbs"}
        /\ TablesAssociatedWith(FinishedResources, "HubVpcTransitGatewayAttachment")
               = {"TransitGatewayRouteTableHub"}
        /\ "RouteToDBSVpcInTransitGatewayRouteTable"
               \in RoutesDeclaredIn(FinishedResources, "TransitGatewayRouteTableHub")
        /\ \A table \in IdsOfType(FinishedResources, "AWS::EC2::TransitGatewayRouteTable") :
               Cardinality(AssociationsOfTable(FinishedResources, table)) <= 1


(***************************************************************************)
(* The session: AWSSession.createCloudFormationStack, one request at a     *)
(* time.  A request to the services returns ("ok") or raises: put_object,  *)
(* create_stack and delete_stack raise ClientError, the wait of a waiter   *)
(* raises WaiterError.                                                     *)
(***************************************************************************)
MaxStackCalls == 2

\* the arguments of a call: stackName, templateBody and region always, the bucket of the
\* template and the role only when they are not None
StackArguments ==
    {[name \in {"stackName", "templateBody", "region"} \cup optional |-> name] :
        optional \in SUBSET {"bucketForCFTemplate", "roleArn"}}

\* the call, up to the choice between the bucket and the body of the template
CreateCloudFormationStack ==
    /\ stack_pc = "idle"
    /\ Len(stack_results) < MaxStackCalls
    /\ stack_args' \in StackArguments
    /\ kwargs' = LET named == [StackName |-> stack_args'.stackName,
                               Capabilities |-> <<"CAPABILITY_NAMED_IAM">>]
                 IN IF "roleArn" \in DOMAIN stack_args'
                    THEN [key \in {"StackName", "Capabilities", "RoleARN"} |->
                            IF key = "RoleARN" THEN stack_args'.roleArn ELSE named[key]]
                    ELSE named
    /\ calls' = <<>>
    /\ stack_pc' = IF "bucketForCFTemplate" \in DOMAIN stack_args' THEN "put_object"
                   ELSE "create_stack"
    /\ UNCHANGED <<stack_results, plannerVars, calcVars, buildVars>>

\* s3.put_object, or the outer except ClientError and return False
PutObject ==
    /\ stack_pc = "put_object"
    /\ \E outcome \in {"ok", "ClientError"} :
          /\ calls' = Append(calls, [operation |-> "put_object", outcome |-> outcome])
          /\ IF outcome = "ok"
             THEN stack_pc' = "create_stack" /\ UNCHANGED stack_results
             ELSE stack_pc' = "idle" /\ stack_results' = Append(stack_results, "False")
    /\ UNCHANGED <<stack_args, kwargs, plannerVars, calcVars, buildVars>>

\* kwargs['TemplateURL'] or kwargs["TemplateBody"] and cf_client.create_stack(**kwargs),
\* or the outer except ClientError and return False
CreateStack ==
    /\ stack_pc = "create_stack"
    /\ kwargs' =
          LET uploaded == "bucketForCFTemplate" \in DOMAIN stack_args
              key == IF uploaded THEN "TemplateURL" ELSE "TemplateBody"
              template == IF uploaded
                          THEN <<"https://", stack_args.bucketForCFTemplate,
                                 ".s3.amazonaws.com/", stack_args.stackName, ".yaml">>
                          ELSE stack_args.templateBody
          IN [k \in DOMAIN kwargs \cup {key} |-> IF k = key THEN template ELSE kwargs[k]]
    /\ \E outcome \in {"ok", "ClientError"} :
          /\ calls' = Append(calls, [operation |-> "create_stack", outcome |-> outcome])
          /\ IF outcome = "ok"
             THEN stack_pc' = "stack_create_complete" /\ UNCHANGED stack_results
             ELSE stack_pc' = "idle" /\ stack_results' = Append(stack_results, "False")
    /\ UNCHANGED <<stack_args, plannerVars, calcVars, buildVars>>

\* createWaiter.wait and return True, or the outer except WaiterError
CreateWaiterWait ==
    /\ stack_pc = "stack_create_complete"
    /\ \E outcome \in {"ok", "WaiterError"} :
          /\ calls' = Append(calls, [operation |-> "stack_create_complete",
                                     outcome |-> outcome])
          /\ IF outcome = "ok"
             THEN stack_pc' = "idle" /\ stack_results' = Append(stack_results, "True")
             ELSE stack_pc' = "stack_rollback_complete" /\ UNCHANGED stack_results
    /\ UNCHANGED <<stack_args, kwargs, plannerVars, calcVars, buildVars>>

\* rollbackWaiter.wait; its WaiterError is caught and printed
RollbackWaiterWait ==
    /\ stack_pc = "stack_rollback_complete"
    /\ \E outcome \in {"ok", "WaiterError"} :
          calls' = Append(calls, [operation |-> "stack_rollback_complete",
                                  outcome |-> outcome])
    /\ stack_pc' = "delete_stack"
    /\ UNCHANGED <<stack_args, kwargs, stack_results, plannerVars, calcVars, buildVars>>

\* cf_client.delete_stack; its ClientError is caught and printed, and False returned
DeleteStack ==
    /\ stack_pc = "delete_stack"
    /\ \E outcome \in {"ok", "ClientError"} :
          /\ calls' = Append(calls, [operation |-> "delete_stack", outcome |-> outcome])
          /\ IF outcome = "ok"
             THEN stack_pc' = "stack_delete_complete" /\ UNCHANGED stack_results
             ELSE stack_pc' = "idle" /\ stack_results' = Append(stack_results, "False")
    /\ UNCHANGED <<stack_args, kwargs, plannerVars, calcVars, buildVars>>

\* deleteWaiter.wait and return False; its WaiterError is not a ClientError, no handler
\* of the call catches it and it leaves the call
DeleteWaiterWait ==
    /\ stack_pc = "stack_delete_complete"
    /\ \E outcome \in {"ok", "WaiterError"} :
          /\ calls' = Append(calls, [operation |-> "stack_delete_complete",
                                     outcome |-> outcome])
          /\ stack_results' = Append(stack_results,
                                     IF outcome = "ok" THEN "False" ELSE "WaiterError")
    /\ stack_pc' = "idle"
    /\ UNCHANGED <<stack_args, kwargs, plannerVars, calcVars, buildVars>>

InitStack ==
    /\ PlannerIdle
    /\ CalcIdle
    /\ BuildIdle
    /\ StackIdle

NextStack ==
    \/ CreateCloudFormationStack
    \/ PutObject
    \/ CreateStack
    \/ CreateWaiterWait
    \/ RollbackWaiterWait
    \/ DeleteStack
    \/ DeleteWaiterWait

SpecStack == InitStack /\ [][NextStack]_vars

(***************************************************************************)
(* Claims about the session.                                               *)
(***************************************************************************)
\* the requests of the call in progress or last ended, by operation and outcome
Outcomes(operation) == {calls[i].outcome : i \in {k \in DOMAIN calls : calls[k].operation = operation}}

\* a call has ended and stack_results holds its result last
Ended == stack_pc = "idle" /\ stack_results # <<>>

LastResult == stack_results[Len(stack_results)]

\* a request of the call has failed
RequestFailed == \E i \in DOMAIN calls : calls[i].outcome # "ok"

\* C30: every call of createCloudFormationStack that has ended has returned a boolean
\* and raised nothing; it has returned True only when the wait for
\* stack_create_complete succeeded; and when a request of it failed it has returned
\* False, after requesting delete_stack if create_stack had succeeded
C30_BooleanOutcome ==
    Ended =>
        /\ LastResult \in {"True", "False"}
        /\ LastResult = "True" => Outcomes("stack_create_complete") = {"ok"}
        /\ RequestFailed =>
              /\ LastResult = "False"
              /\ "ok" \in Outcomes("create_stack") => Outcomes("delete_stack") # {}

====
